---- MODULE Spec2Model ----
(***************************************************************************)
(* Model of the metrics engine of AgentChangeBench (tau2.metrics):          *)
(*   tcrr.py          normalized_params, extract_tool_calls_with_turns,     *)
(*                    compute_tcrr_windowed                                 *)
(*   agent_metrics.py normalized_params, pass_hat_k, get_metrics_df,        *)
(*                    compute_metrics, compute_metrics_simple               *)
(*                                                                         *)
(* Python values are encoded as tagged pairs <<tag, payload>>:              *)
(*   <<"int", <<n>>>>        an int                                         *)
(*   <<"str", codes>>        a str, as the sequence of its character codes  *)
(*   <<"list", elems>>       a list                                         *)
(*   <<"tuple", elems>>      a tuple                                        *)
(*   <<"dict", items>>       a dict, as its (key, value) pairs in insertion *)
(*                           order; keys are strs (sequences of codes)      *)
(***************************************************************************)
EXTENDS Integers, Sequences, FiniteSets, TLC

VARIABLES
    pc,          \* which operation of the engine has run on the current input
    args,        \* canonicalizer: the argument mapping a
    args2,       \* canonicalizer: a mapping a' obtained from a by reordering
    canon,       \* canonicalizer: <<normalized_params(a), normalized_params(a')>>
    messages,    \* extractor: the transcript being scanned
    tool_calls,  \* extractor / analyzer: the list of ToolCallInfo
    config,      \* analyzer: the window_size and batch_threshold it was given
    tcrr,        \* analyzer: the TCRRResult of compute_tcrr_windowed
    trials,      \* pass^k: <<num_trials, success_count, k>>
    passk,       \* pass^k: the outcome of pass_hat_k
    results,     \* aggregator: the Results (its simulation runs)
    report,      \* aggregator: the outcome of get_metrics_df / compute_metrics
    env          \* domains: the state of an environment or a user simulator

vars == <<pc, args, args2, canon, messages, tool_calls, config, tcrr, trials,
          passk, results, report, env>>

None == <<"none", <<>>>>

----------------------------------------------------------------------------
(* Python values *)

PInt(n) == <<"int", <<n>>>>
PStr(s) == <<"str", s>>
PList(s) == <<"list", s>>
PTuple(s) == <<"tuple", s>>
PDict(s) == <<"dict", s>>

Tag(v) == v[1]
Val(v) == v[2]

\* character codes of the strings the model uses
K_a == <<97>>
K_b == <<98>>

CommaSpace == <<44, 32>>
Quote == <<39>>

RECURSIVE IntStr(_)
\* str(n) for an int n: its decimal digits
IntStr(n) ==
    IF n < 0 THEN <<45>> \o IntStr(0 - n)
    ELSE IF n < 10 THEN <<48 + n>>
    ELSE IntStr(n \div 10) \o <<48 + (n % 10)>>

RECURSIVE Repr(_)
RECURSIVE ReprJoin(_)
RECURSIVE ReprItems(_)
\* repr(v): like str(v), but a str is quoted
Repr(v) ==
    CASE Tag(v) = "int" -> IntStr(Val(v)[1])
      [] Tag(v) = "str" -> Quote \o Val(v) \o Quote
      [] Tag(v) = "none" -> <<78, 111, 110, 101>>
      [] Tag(v) = "list" -> <<91>> \o ReprJoin(Val(v)) \o <<93>>
      [] Tag(v) = "tuple" ->
            <<40>> \o ReprJoin(Val(v))
                   \o (IF Len(Val(v)) = 1 THEN <<44>> ELSE <<>>) \o <<41>>
      [] Tag(v) = "dict" -> <<123>> \o ReprItems(Val(v)) \o <<125>>

ReprJoin(s) ==
    IF s = <<>> THEN <<>>
    ELSE IF Len(s) = 1 THEN Repr(s[1])
    ELSE Repr(s[1]) \o CommaSpace \o ReprJoin(Tail(s))

ReprItems(s) ==
    IF s = <<>> THEN <<>>
    ELSE LET one == Quote \o s[1][1] \o Quote \o <<58, 32>> \o Repr(s[1][2])
         IN IF Len(s) = 1 THEN one ELSE one \o CommaSpace \o ReprItems(Tail(s))

\* str(v)
Str(v) == IF Tag(v) = "str" THEN Val(v) ELSE Repr(v)

RECURSIVE CodesCmp(_, _)
\* lexicographic order of two strs: "lt", "eq" or "gt"
CodesCmp(s, t) ==
    IF s = <<>> THEN (IF t = <<>> THEN "eq" ELSE "lt")
    ELSE IF t = <<>> THEN "gt"
    ELSE IF s[1] < t[1] THEN "lt"
    ELSE IF s[1] > t[1] THEN "gt"
    ELSE CodesCmp(Tail(s), Tail(t))

RECURSIVE PyEq(_, _)
RECURSIVE SeqEq(_, _)
RECURSIVE DictLookup(_, _)
RECURSIVE DictSub(_, _)
\* x == y in Python; never raises. Dicts are equal whatever their key order.
PyEq(x, y) ==
    IF Tag(x) # Tag(y) THEN FALSE
    ELSE CASE Tag(x) \in {"int", "str", "none"} -> Val(x) = Val(y)
           [] Tag(x) \in {"list", "tuple"} -> SeqEq(Val(x), Val(y))
           [] Tag(x) = "dict" ->
                /\ Len(Val(x)) = Len(Val(y))
                /\ DictSub(Val(x), Val(y))

SeqEq(s, t) ==
    IF Len(s) # Len(t) THEN FALSE
    ELSE IF s = <<>> THEN TRUE
    ELSE PyEq(s[1], t[1]) /\ SeqEq(Tail(s), Tail(t))

\* the value under key k in the items d, or <<>> when k is no key of d
DictLookup(d, k) ==
    IF d = <<>> THEN <<>>
    ELSE IF d[1][1] = k THEN <<d[1][2]>>
    ELSE DictLookup(Tail(d), k)

DictSub(d, e) ==
    IF d = <<>> THEN TRUE
    ELSE LET hit == DictLookup(e, d[1][1])
         IN /\ hit # <<>>
            /\ PyEq(d[1][2], hit[1])
            /\ DictSub(Tail(d), e)

RECURSIVE PyCmp(_, _)
RECURSIVE SeqCmp(_, _)
\* the outcome of ordering x against y with <: "lt", "eq", "gt", or "err" when
\* Python raises TypeError (values of different types, dicts, None)
PyCmp(x, y) ==
    IF Tag(x) # Tag(y) THEN "err"
    ELSE CASE Tag(x) = "int" ->
                IF Val(x)[1] < Val(y)[1] THEN "lt"
                ELSE IF Val(x)[1] > Val(y)[1] THEN "gt" ELSE "eq"
           [] Tag(x) = "str" -> CodesCmp(Val(x), Val(y))
           [] Tag(x) \in {"list", "tuple"} -> SeqCmp(Val(x), Val(y))
           [] OTHER -> "err"

\* sequences compare at their first unequal position, else by length
SeqCmp(s, t) ==
    IF s = <<>> THEN (IF t = <<>> THEN "eq" ELSE "lt")
    ELSE IF t = <<>> THEN "gt"
    ELSE IF PyEq(s[1], t[1]) THEN SeqCmp(Tail(s), Tail(t))
    ELSE PyCmp(s[1], t[1])

\* sorted(s) raises TypeError: two of its elements cannot be ordered
SortRaises(s) ==
    \E i \in 1..Len(s) : \E j \in (i + 1)..Len(s) : PyCmp(s[i], s[j]) = "err"

RECURSIVE Insert(_, _)
\* x put into the sorted s after every element that is not greater (stable)
Insert(x, s) ==
    IF s = <<>> THEN <<x>>
    ELSE IF PyCmp(x, s[1]) = "lt" THEN <<x>> \o s
    ELSE <<s[1]>> \o Insert(x, Tail(s))

RECURSIVE Sorted(_)
\* sorted(s), for s whose elements can all be ordered
Sorted(s) ==
    IF s = <<>> THEN <<>>
    ELSE Insert(s[Len(s)], Sorted(SubSeq(s, 1, Len(s) - 1)))

RECURSIVE InsertItem(_, _)
InsertItem(x, s) ==
    IF s = <<>> THEN <<x>>
    ELSE IF CodesCmp(x[1], s[1][1]) = "lt" THEN <<x>> \o s
    ELSE <<s[1]>> \o InsertItem(x, Tail(s))

RECURSIVE SortedItems(_)
\* sorted(params.items()): the keys of a dict are distinct, so the pairs are
\* ordered by key alone
SortedItems(s) ==
    IF s = <<>> THEN <<>>
    ELSE InsertItem(s[Len(s)], SortedItems(SubSeq(s, 1, Len(s) - 1)))

StrEach(s) == [i \in 1..Len(s) |-> PStr(Str(s[i]))]

----------------------------------------------------------------------------
(* ParamCanonicalizer: tcrr.normalized_params *)

RECURSIVE normalized_params(_)
\* one element of a list value (tcrr.py lines 57-63)
NormItem(item) ==
    CASE Tag(item) = "dict" -> normalized_params(item)
      [] Tag(item) = "list" -> PTuple(StrEach(Val(item)))
      [] OTHER -> item

\* a list value (tcrr.py lines 55-66)
NormList(v) ==
    LET normalized_list == [i \in 1..Len(Val(v)) |-> NormItem(Val(v)[i])]
    IN IF SortRaises(normalized_list)
       THEN PTuple(StrEach(Val(v)))
       ELSE PTuple(Sorted(normalized_list))

NormValue(v) ==
    CASE Tag(v) = "dict" -> normalized_params(v)
      [] Tag(v) = "list" -> NormList(v)
      [] OTHER -> v

normalized_params(params) ==
    LET items == SortedItems(Val(params))
    IN PTuple([i \in 1..Len(items) |->
                  PTuple(<<PStr(items[i][1]), NormValue(items[i][2])>>)])

(* agent_metrics.normalized_params *)

RECURSIVE agent_metrics_normalized_params(_)
\* a list value (agent_metrics.py lines 41-46): the raw elements are sorted
AmNormList(v) ==
    IF SortRaises(Val(v))
    THEN PTuple(StrEach(Val(v)))
    ELSE PTuple(Sorted(Val(v)))

AmNormValue(v) ==
    CASE Tag(v) = "dict" -> agent_metrics_normalized_params(v)
      [] Tag(v) = "list" -> AmNormList(v)
      [] OTHER -> v

agent_metrics_normalized_params(params) ==
    IF Tag(params) # "dict" THEN PStr(Str(params))
    ELSE LET items == SortedItems(Val(params))
         IN PTuple([i \in 1..Len(items) |->
                       PTuple(<<PStr(items[i][1]), AmNormValue(items[i][2])>>)])

----------------------------------------------------------------------------
(* The argument mappings the canonicalizer is applied to *)

MaxListLen == 2

SeqsUpTo(S, lo, hi) == UNION {[1..n -> S] : n \in lo..hi}

Scalars == {PInt(1), PInt(2), PStr(<<49>>)}

FlatLists == {PList(s) : s \in SeqsUpTo(Scalars, 0, MaxListLen)}

InnerDicts ==
    LET S == {PInt(1), PStr(<<49>>)}
    IN {PDict(<<<<K_a, s>>>>) : s \in S}
       \cup {PDict(<<<<K_a, s>>, <<K_b, t>>>>) : s \in S, t \in S}
       \cup {PDict(<<<<K_b, t>>, <<K_a, s>>>>) : s \in S, t \in S}

NestedElems ==
    {PList(<<PInt(1), PInt(2)>>), PList(<<PInt(2), PInt(1)>>),
     PList(<<PInt(1)>>), PList(<<PStr(<<49>>)>>),
     PDict(<<<<K_a, PInt(1)>>>>),
     PDict(<<<<K_a, PInt(1)>>, <<K_b, PStr(<<49>>)>>>>),
     PDict(<<<<K_b, PStr(<<49>>)>>, <<K_a, PInt(1)>>>>),
     PDict(<<<<K_a, PStr(<<49>>)>>, <<K_b, PInt(1)>>>>)}

NestedLists == {PList(s) : s \in SeqsUpTo(NestedElems, 1, MaxListLen)}

ArgValues == Scalars \cup FlatLists \cup InnerDicts \cup NestedLists

ArgMappings ==
    {PDict(<<<<K_a, v>>>>) : v \in ArgValues}
    \cup {PDict(<<<<K_a, v>>, <<K_b, s>>>>) : v \in ArgValues, s \in Scalars}
    \cup {PDict(<<<<K_b, s>>, <<K_a, v>>>>) : v \in ArgValues, s \in Scalars}

\* s with its elements i and i+1 exchanged
SwapAt(s, i) ==
    [j \in 1..Len(s) |-> IF j = i THEN s[i + 1] ELSE IF j = i + 1 THEN s[i] ELSE s[j]]

RECURSIVE KeySwaps(_)
\* every value got from v by exchanging two neighbouring keys of one mapping
\* inside it, at any depth
KeySwaps(v) ==
    CASE Tag(v) = "dict" ->
            {PDict(SwapAt(Val(v), i)) : i \in 1..(Len(Val(v)) - 1)}
            \cup UNION {{PDict([Val(v) EXCEPT ![i] = <<Val(v)[i][1], w>>]) :
                            w \in KeySwaps(Val(v)[i][2])} : i \in 1..Len(Val(v))}
      [] Tag(v) = "list" ->
            UNION {{PList([Val(v) EXCEPT ![i] = w]) : w \in KeySwaps(Val(v)[i])} :
                      i \in 1..Len(Val(v))}
      [] OTHER -> {}

RECURSIVE ListSwaps(_)
\* every value got from v by exchanging two neighbouring elements of one list
\* inside it (at any depth) whose elements are mutually orderable
ListSwaps(v) ==
    CASE Tag(v) = "list" ->
            (IF SortRaises(Val(v)) THEN {}
             ELSE {PList(SwapAt(Val(v), i)) : i \in 1..(Len(Val(v)) - 1)})
            \cup UNION {{PList([Val(v) EXCEPT ![i] = w]) : w \in ListSwaps(Val(v)[i])} :
                           i \in 1..Len(Val(v))}
      [] Tag(v) = "dict" ->
            UNION {{PDict([Val(v) EXCEPT ![i] = <<Val(v)[i][1], w>>]) :
                       w \in ListSwaps(Val(v)[i][2])} : i \in 1..Len(Val(v))}
      [] OTHER -> {}

\* the variables an operation on other inputs leaves alone
IdleCanon == args = None /\ args2 = None /\ canon = None
IdleExtract == messages = <<>>
IdleTcrr == tool_calls = <<>> /\ config = None /\ tcrr = None
IdlePassK == trials = None /\ passk = None
IdleResults == results = None /\ report = None
IdleEnv == env = None

InitCanon ==
    /\ pc = "canon_input"
    /\ args \in ArgMappings
    /\ args2 = args
    /\ canon = None
    /\ IdleExtract /\ IdleTcrr /\ IdlePassK /\ IdleResults
    /\ IdleEnv

\* the caller passes the same logical arguments with another key order
PermuteKeys ==
    /\ pc = "canon_input"
    /\ args2' \in KeySwaps(args2)
    /\ UNCHANGED <<env, pc, args, canon, messages, tool_calls, config, tcrr, trials,
                   passk, results, report>>

\* the caller passes the same logical arguments with another list order
PermuteList ==
    /\ pc = "canon_input"
    /\ args2' \in ListSwaps(args2)
    /\ UNCHANGED <<env, pc, args, canon, messages, tool_calls, config, tcrr, trials,
                   passk, results, report>>

\* tcrr.normalized_params applied to both mappings
Canonicalize ==
    /\ pc = "canon_input"
    /\ canon' = <<normalized_params(args), normalized_params(args2)>>
    /\ pc' = "canon_done"
    /\ UNCHANGED <<env, args, args2, messages, tool_calls, config, tcrr, trials, passk,
                   results, report>>

\* agent_metrics.normalized_params applied to both mappings
CanonicalizeSimple ==
    /\ pc = "canon_input"
    /\ canon' = <<agent_metrics_normalized_params(args),
                  agent_metrics_normalized_params(args2)>>
    /\ pc' = "canon_done_simple"
    /\ UNCHANGED <<env, args, args2, messages, tool_calls, config, tcrr, trials, passk,
                   results, report>>

NextCanon == PermuteKeys \/ PermuteList \/ Canonicalize \/ CanonicalizeSimple

SpecCanon == InitCanon /\ [][NextCanon]_vars

\* C1: canonicalization invariance: whenever a' is got from a by permuting the
\* keys of mappings inside it or the elements of orderable lists inside it
\* (at any depth), normalized_params(a) == normalized_params(a').
C1_CanonInvariance ==
    /\ pc = "canon_done" => canon[1] = canon[2]
    /\ pc = "canon_done_simple" => PyEq(canon[1], canon[2])

----------------------------------------------------------------------------
(* ToolCallExtractor: tcrr.extract_tool_calls_with_turns *)

MaxMsgs == 3
MaxCallsPerMsg == 2

Args_a1b2 == PDict(<<<<K_a, PInt(1)>>, <<K_b, PInt(2)>>>>)
Args_b2a1 == PDict(<<<<K_b, PInt(2)>>, <<K_a, PInt(1)>>>>)
Args_a2 == PDict(<<<<K_a, PInt(2)>>>>)

\* the tool calls a transcript can hold; an identifier is used once in a run
CallIds == {"c1", "c2", "c3"}
ToolCallOf(id) ==
    CASE id = "c1" -> [id |-> id, name |-> "get_balance", arguments |-> Args_a1b2]
      [] id = "c2" -> [id |-> id, name |-> "get_balance", arguments |-> Args_b2a1]
      [] id = "c3" -> [id |-> id, name |-> "transfer", arguments |-> Args_a2]

\* the payloads of a tool-result message: (error flag, content)
ToolOutcomes ==
    {<<FALSE, <<111, 107>>>>,
     <<TRUE, <<73, 110, 118, 97, 108, 105, 100, 32, 80, 97, 114, 97, 109, 101,
               116, 101, 114, 58, 32, 105, 100>>>>,
     <<TRUE, <<78, 111, 116, 32, 102, 111, 117, 110, 100>>>>}

ParamErrorKeywords ==
    {<<105, 110, 118, 97, 108, 105, 100, 32, 112, 97, 114, 97, 109, 101, 116, 101, 114>>,
     <<109, 105, 115, 115, 105, 110, 103, 32, 112, 97, 114, 97, 109, 101, 116, 101, 114>>,
     <<112, 97, 114, 97, 109, 101, 116, 101, 114, 32, 101, 114, 114, 111, 114>>,
     <<98, 97, 100, 32, 112, 97, 114, 97, 109, 101, 116, 101, 114>>,
     <<105, 110, 118, 97, 108, 105, 100, 32, 97, 114, 103, 117, 109, 101, 110, 116>>,
     <<109, 105, 115, 115, 105, 110, 103, 32, 97, 114, 103, 117, 109, 101, 110, 116>>}

\* str.lower() and the substring test `keyword in error_content`
Lower(s) == [i \in 1..Len(s) |-> IF s[i] >= 65 /\ s[i] <= 90 THEN s[i] + 32 ELSE s[i]]
Contains(hay, needle) ==
    \E i \in 0..(Len(hay) - Len(needle)) : SubSeq(hay, i + 1, i + Len(needle)) = needle

\* Messages. role "system", "user", "assistant" or "tool"; only user and
\* assistant messages have a tool_calls attribute, only tool messages carry
\* id, error and content.
PlainMessage(role, calls, turn_idx) ==
    [role |-> role, tool_calls |-> calls, turn_idx |-> turn_idx,
     id |-> "", error |-> FALSE, content |-> <<>>]
ToolMessage(id, outcome, turn_idx) ==
    [role |-> "tool", tool_calls |-> <<>>, turn_idx |-> turn_idx,
     id |-> id, error |-> outcome[1], content |-> outcome[2]]

HasToolCalls(msg) == msg.role \in {"user", "assistant"}

RECURSIVE ToolResults(_)
\* tcrr.py lines 77-84: call id -> result, a later result replacing an earlier
ToolResults(msgs) ==
    IF msgs = <<>> THEN [i \in {} |-> None]
    ELSE LET rest == ToolResults(SubSeq(msgs, 1, Len(msgs) - 1))
             msg == msgs[Len(msgs)]
         IN IF msg.role = "tool"
            THEN [i \in DOMAIN rest \cup {msg.id} |->
                     IF i = msg.id
                     THEN [success |-> ~msg.error, error |-> msg.error,
                           content |-> msg.content]
                     ELSE rest[i]]
            ELSE rest

\* every call taken for correct, whatever its result
CorrectWithoutLookup(tool_results, tool_call) == TRUE

\* the error flag of the result taken for the success flag
CorrectFromErrorFlag(tool_results, tool_call) ==
    IF tool_call.id \in DOMAIN tool_results
    THEN tool_results[tool_call.id].error
    ELSE TRUE

\* tcrr.py lines 93-95
CallCorrect(tool_results, tool_call) ==
    IF tool_call.id \in DOMAIN tool_results
    THEN tool_results[tool_call.id].success
    ELSE TRUE

\* tcrr.py lines 96-112
CallParamsValid(tool_results, tool_call) ==
    IF tool_call.id \in DOMAIN tool_results
    THEN LET result == tool_results[tool_call.id]
         IN ~(/\ result.error
              /\ result.content # <<>>
              /\ \E keyword \in ParamErrorKeywords :
                     Contains(Lower(result.content), keyword))
    ELSE TRUE

\* a counter that moves on every message
CountEveryMessage(assistant_turn_count, msg) == assistant_turn_count + 1

\* the counter after scanning msg (tcrr.py lines 89-90)
CountTurn(assistant_turn_count, msg) ==
    IF msg.role = "assistant" THEN assistant_turn_count + 1 ELSE assistant_turn_count

\* tcrr.py lines 114-123, for every call of one message
CallInfos(tool_results, msg, assistant_turn_count) ==
    [i \in 1..Len(msg.tool_calls) |->
        [name |-> msg.tool_calls[i].name,
         params |-> msg.tool_calls[i].arguments,
         turn_idx |-> msg.turn_idx,
         assistant_turn_idx |-> assistant_turn_count,
         call_id |-> msg.tool_calls[i].id,
         correct |-> CallCorrect(tool_results, msg.tool_calls[i]),
         params_valid |-> CallParamsValid(tool_results, msg.tool_calls[i])]]

RECURSIVE ScanMessages(_, _, _)
\* tcrr.py lines 86-123: the scan, from the counter value reached so far
ScanMessages(tool_results, msgs, assistant_turn_count) ==
    IF msgs = <<>> THEN <<>>
    ELSE LET msg == msgs[1]
             count == CountTurn(assistant_turn_count, msg)
         IN (IF HasToolCalls(msg) /\ msg.tool_calls # <<>>
             THEN CallInfos(tool_results, msg, count)
             ELSE <<>>)
            \o ScanMessages(tool_results, Tail(msgs), count)

extract_tool_calls_with_turns(msgs) == ScanMessages(ToolResults(msgs), msgs, 0)

\* the identifiers of the calls already in the transcript
UsedCallIds(msgs) ==
    UNION {{msgs[m].tool_calls[i].id : i \in 1..Len(msgs[m].tool_calls)} :
              m \in 1..Len(msgs)}

InitExtract ==
    /\ pc = "transcript"
    /\ messages = <<>>
    /\ IdleCanon /\ IdleTcrr /\ IdlePassK /\ IdleResults
    /\ IdleEnv

\* the run appends a system, user or assistant message, with its tool calls
AppendMessage ==
    /\ pc = "transcript"
    /\ Len(messages) < MaxMsgs
    /\ \E role \in {"system", "user", "assistant"} :
       \E ids \in SeqsUpTo(CallIds \ UsedCallIds(messages), 0, MaxCallsPerMsg) :
          /\ role = "system" => ids = <<>>
          /\ \A i, j \in 1..Len(ids) : i # j => ids[i] # ids[j]
          /\ messages' = Append(messages,
                PlainMessage(role, [i \in 1..Len(ids) |-> ToolCallOf(ids[i])],
                             Len(messages)))
    /\ UNCHANGED <<env, pc, args, args2, canon, tool_calls, config, tcrr, trials,
                   passk, results, report>>

\* the environment appends the result of a tool call
AppendToolMessage ==
    /\ pc = "transcript"
    /\ Len(messages) < MaxMsgs
    /\ \E id \in CallIds : \E outcome \in ToolOutcomes :
          messages' = Append(messages, ToolMessage(id, outcome, Len(messages)))
    /\ UNCHANGED <<env, pc, args, args2, canon, tool_calls, config, tcrr, trials,
                   passk, results, report>>

ExtractWithTurns ==
    /\ pc = "transcript"
    /\ tool_calls' = extract_tool_calls_with_turns(messages)
    /\ pc' = "extracted"
    /\ UNCHANGED <<env, args, args2, canon, messages, config, tcrr, trials, passk,
                   results, report>>

NextExtract == AppendMessage \/ AppendToolMessage \/ ExtractWithTurns

SpecExtract == InitExtract /\ [][NextExtract]_vars

\* the position of the message the call with identifier id is attached to
MessageOfCall(id) ==
    CHOOSE m \in 1..Len(messages) :
        \E i \in 1..Len(messages[m].tool_calls) : messages[m].tool_calls[i].id = id

AssistantMessagesUpTo(m) ==
    Cardinality({j \in 1..m : messages[j].role = "assistant"})

\* every call of the transcript, in message order then call order
RECURSIVE AttachedCallIds(_)
AttachedCallIds(msgs) ==
    IF msgs = <<>> THEN <<>>
    ELSE [i \in 1..Len(msgs[1].tool_calls) |-> msgs[1].tool_calls[i].id]
         \o AttachedCallIds(Tail(msgs))

\* C2: turn indexing: every extracted call carries assistant_turn_idx equal to
\* the number of assistant messages at or before the message it is attached
\* to (0 before every assistant message, 1 on the first one); the calls come
\* out in transcript order and their indices never decrease.
C2_TurnIndexing ==
    pc = "extracted" =>
        /\ [i \in 1..Len(tool_calls) |-> tool_calls[i].call_id]
              = AttachedCallIds(messages)
        /\ \A i \in 1..Len(tool_calls) :
              tool_calls[i].assistant_turn_idx
                 = AssistantMessagesUpTo(MessageOfCall(tool_calls[i].call_id))
        /\ \A i \in 1..(Len(tool_calls) - 1) :
              tool_calls[i].assistant_turn_idx <= tool_calls[i + 1].assistant_turn_idx

\* a call before every assistant message, calls on the first assistant
\* message, and a call on the second one, have all been extracted
C2_Witness ==
    /\ pc = "extracted"
    /\ Len(tool_calls) = 3
    /\ tool_calls[1].assistant_turn_idx = 0
    /\ tool_calls[2].assistant_turn_idx = 1
    /\ tool_calls[3].assistant_turn_idx = 2

----------------------------------------------------------------------------
(* RedundancyAnalyzer: tcrr.compute_tcrr_windowed *)

DefaultWindowSize == 3
DefaultBatchThreshold == 2

MaxCalls == 4
\* one turn more than the default window, so that a call can leave the window
MaxTurn == DefaultWindowSize + 1

WindowSizes == {0, 1, DefaultWindowSize}
BatchThresholds == {0, 1, DefaultBatchThreshold}

Max(a, b) == IF a >= b THEN a ELSE b
Min(a, b) == IF a <= b THEN a ELSE b

RECURSIVE Gcd(_, _)
Gcd(a, b) == IF b = 0 THEN a ELSE Gcd(b, a % b)

\* the float n / d (n >= 0, d > 0), kept as the fraction in lowest terms
Div(n, d) == LET g == Gcd(n, d) IN <<n \div g, d \div g>>
\* the float 0.0
Zero == <<0, 1>>

\* tcrr.py lines 179-186, 189-202 and 206-209: the identity of a call is
\* (name, normalized_params(params)); when normalized_params raises (params
\* is no dict and has no items()), it is (name, str(params))
CallIdentity(call) ==
    IF Tag(call.params) = "dict"
    THEN <<call.name, normalized_params(call.params)>>
    ELSE <<call.name, PStr(Str(call.params))>>

\* calls_by_turn[turn] (tcrr.py lines 157-162)
CallsOfTurn(calls, turn) ==
    SelectSeq(calls, LAMBDA c : c.assistant_turn_idx = turn)

TurnKeys(calls) == {calls[i].assistant_turn_idx : i \in 1..Len(calls)}

RECURSIVE SortedTurns(_)
\* sorted(calls_by_turn.keys()) (tcrr.py line 164)
SortedTurns(S) ==
    IF S = {} THEN <<>>
    ELSE LET m == CHOOSE x \in S : \A y \in S : x <= y
         IN <<m>> \o SortedTurns(S \ {m})

\* a window that reaches back to turn 0
WindowStartFromZero(current_turn, window_size) ==
    Max(0, current_turn - window_size)

\* a window that is one turn short
WindowStartOneLater(current_turn, window_size) ==
    Max(1, current_turn - window_size + 1)

\* tcrr.py line 170
WindowStart(current_turn, window_size) == Max(1, current_turn - window_size)

RECURSIVE PreviousCalls(_, _, _)
\* tcrr.py lines 171-175: for prev_turn in range(window_start, current_turn)
PreviousCalls(calls, prev_turn, current_turn) ==
    IF prev_turn >= current_turn THEN <<>>
    ELSE CallsOfTurn(calls, prev_turn)
         \o PreviousCalls(calls, prev_turn + 1, current_turn)

\* tcrr.py lines 177-186
PreviousIdentities(previous_calls) ==
    {CallIdentity(previous_calls[i]) : i \in 1..Len(previous_calls)}

RECURSIVE WindowRedundant(_, _)
\* tcrr.py lines 188-202: one count per current call found in the window
WindowRedundant(current_calls, previous_identities) ==
    IF current_calls = <<>> THEN 0
    ELSE (IF CallIdentity(current_calls[1]) \in previous_identities THEN 1 ELSE 0)
         + WindowRedundant(Tail(current_calls), previous_identities)

\* tcrr.py lines 204-213: identity -> occurrences within the turn
CallIdentities(current_calls) ==
    [id \in {CallIdentity(current_calls[i]) : i \in 1..Len(current_calls)} |->
        Cardinality({i \in 1..Len(current_calls) :
                        CallIdentity(current_calls[i]) = id})]

\* every repetition after the first, once the threshold is passed
RepetitionsAfterFirst(count, batch_threshold) ==
    IF count > batch_threshold THEN count - 1 ELSE 0

\* the difference taken without the test count > batch_threshold
UnguardedExcess(count, batch_threshold) == count - batch_threshold

\* tcrr.py lines 216-217: the excess of one identity over the threshold
ExcessCalls(count, batch_threshold) ==
    IF count > batch_threshold THEN count - batch_threshold ELSE 0

RECURSIVE BatchRedundant(_, _, _)
\* tcrr.py lines 215-219, over the identities ids of call_identities
BatchRedundant(call_identities, ids, batch_threshold) ==
    IF ids = {} THEN 0
    ELSE LET id == CHOOSE x \in ids : TRUE
         IN ExcessCalls(call_identities[id], batch_threshold)
            + BatchRedundant(call_identities, ids \ {id}, batch_threshold)

RECURSIVE ProcessTurns(_, _, _, _, _)
\* tcrr.py lines 166-219: the loop over sorted_turns, acc holding
\* window_redundant_calls, batch_redundant_calls and redundant_by_turn
ProcessTurns(calls, turns, window_size, batch_threshold, acc) ==
    IF turns = <<>> THEN acc
    ELSE LET current_turn == turns[1]
             current_calls == CallsOfTurn(calls, current_turn)
             previous_identities ==
                 PreviousIdentities(
                     PreviousCalls(calls, WindowStart(current_turn, window_size),
                                   current_turn))
             w == WindowRedundant(current_calls, previous_identities)
             call_identities == CallIdentities(current_calls)
             b == BatchRedundant(call_identities, DOMAIN call_identities,
                                 batch_threshold)
         IN ProcessTurns(calls, Tail(turns), window_size, batch_threshold,
                [window |-> acc.window + w,
                 batch |-> acc.batch + b,
                 by_turn |-> [t \in DOMAIN acc.by_turn \cup {current_turn} |->
                                 IF t = current_turn THEN w + b ELSE acc.by_turn[t]]])

EmptyMap == [t \in {} |-> 0]

\* the window count alone
WindowCountOnly(window_redundant_calls, batch_redundant_calls) ==
    window_redundant_calls

\* tcrr.py line 221
TotalRedundant(window_redundant_calls, batch_redundant_calls) ==
    window_redundant_calls + batch_redundant_calls

\* the quotient taken the wrong way round
InvertedRatio(total_redundant_calls, total_calls) ==
    IF total_redundant_calls > 0 THEN Div(total_calls, total_redundant_calls)
    ELSE Zero

\* tcrr.py line 222
RedundancyRatio(total_redundant_calls, total_calls) ==
    IF total_calls > 0 THEN Div(total_redundant_calls, total_calls) ELSE Zero

compute_tcrr_windowed(calls, window_size, batch_threshold) ==
    IF calls = <<>>
    THEN [total_calls |-> 0, redundant_calls |-> 0, redundancy_ratio |-> Zero,
          redundant_by_turn |-> EmptyMap, window_size |-> window_size,
          window_redundant_calls |-> 0, batch_redundant_calls |-> 0]
    ELSE LET total_calls == Len(calls)
             acc == ProcessTurns(calls, SortedTurns(TurnKeys(calls)), window_size,
                                 batch_threshold,
                                 [window |-> 0, batch |-> 0, by_turn |-> EmptyMap])
             total_redundant_calls == TotalRedundant(acc.window, acc.batch)
         IN [total_calls |-> total_calls,
             redundant_calls |-> total_redundant_calls,
             redundancy_ratio |-> RedundancyRatio(total_redundant_calls, total_calls),
             redundant_by_turn |-> acc.by_turn,
             window_size |-> window_size,
             window_redundant_calls |-> acc.window,
             batch_redundant_calls |-> acc.batch]

\* a ToolCallInfo as the analyzer reads it
ToolCallInfo(id, turn) ==
    [name |-> ToolCallOf(id).name, params |-> ToolCallOf(id).arguments,
     turn_idx |-> 0, assistant_turn_idx |-> turn, call_id |-> id,
     correct |-> TRUE, params_valid |-> TRUE]

InitTcrr ==
    /\ pc = "calls"
    /\ tool_calls = <<>>
    /\ config = None
    /\ tcrr = None
    /\ IdleCanon /\ IdleExtract /\ IdlePassK /\ IdleResults
    /\ IdleEnv

\* the caller's list grows by one call; the calls come in the order a scan
\* of a transcript stamps them, their assistant turns never decreasing
AddCall ==
    /\ pc = "calls"
    /\ Len(tool_calls) < MaxCalls
    /\ \E id \in CallIds : \E turn \in 0..MaxTurn :
          /\ tool_calls # <<>> =>
                 tool_calls[Len(tool_calls)].assistant_turn_idx <= turn
          /\ tool_calls' = Append(tool_calls, ToolCallInfo(id, turn))
    /\ UNCHANGED <<env, pc, args, args2, canon, messages, config, tcrr, trials, passk,
                   results, report>>

ComputeTcrrWindowed ==
    /\ pc = "calls"
    /\ \E window_size \in WindowSizes : \E batch_threshold \in BatchThresholds :
          /\ config' = [window_size |-> window_size,
                        batch_threshold |-> batch_threshold]
          /\ tcrr' = compute_tcrr_windowed(tool_calls, window_size, batch_threshold)
    /\ pc' = "tcrr_done"
    /\ UNCHANGED <<env, args, args2, canon, messages, tool_calls, trials, passk,
                   results, report>>

NextTcrr == AddCall \/ ComputeTcrrWindowed

SpecTcrr == InitTcrr /\ [][NextTcrr]_vars

\* calls i and j are the same call: same name, same canonical arguments
SameCall(i, j) ==
    /\ tool_calls[i].name = tool_calls[j].name
    /\ normalized_params(tool_calls[i].params) = normalized_params(tool_calls[j].params)

TurnOf(i) == tool_calls[i].assistant_turn_idx

\* the calls with an identical call in one of the window_size turns before
\* their own, turn 1 being the earliest turn a window reaches
WindowRedundantCalls ==
    {i \in 1..Len(tool_calls) :
        \E j \in 1..Len(tool_calls) :
            /\ SameCall(i, j)
            /\ TurnOf(j) >= Max(1, TurnOf(i) - config.window_size)
            /\ TurnOf(j) <= TurnOf(i) - 1}

\* the calls that are, within their own turn, a repetition beyond the first
\* batch_threshold occurrences of their identity
BatchRedundantCalls ==
    {i \in 1..Len(tool_calls) :
        Cardinality({j \in 1..i : SameCall(i, j) /\ TurnOf(j) = TurnOf(i)})
            > config.batch_threshold}

\* C3: window redundancy: window_redundant_calls is the number of calls that
\* have an identical call in a turn of [max(1, T - window_size), T - 1], each
\* counted once; identical calls in turns 1 and 2 with window_size 3 give
\* total 2, window_redundant 1, batch_redundant 0, ratio 0.5.
C3_WindowRedundancy ==
    pc = "tcrr_done" =>
        /\ tcrr.window_redundant_calls = Cardinality(WindowRedundantCalls)
        /\ (/\ Len(tool_calls) = 2
            /\ SameCall(1, 2)
            /\ TurnOf(1) = 1 /\ TurnOf(2) = 2
            /\ config.window_size = 3
            /\ config.batch_threshold = DefaultBatchThreshold)
           => /\ tcrr.total_calls = 2
              /\ tcrr.window_redundant_calls = 1
              /\ tcrr.batch_redundant_calls = 0
              /\ tcrr.redundancy_ratio = <<1, 2>>

\* calls counted once each although two earlier turns hold a match (one of
\* them written with another key order), with a match outside the window
C3_Witness ==
    /\ pc = "tcrr_done"
    /\ Len(tool_calls) = 4
    /\ config.window_size = 1
    /\ \A i \in 1..4 : SameCall(1, i)
    /\ TurnOf(1) = 1 /\ TurnOf(2) = 2 /\ TurnOf(3) = 3 /\ TurnOf(4) = 3
    /\ tool_calls[1].params # tool_calls[2].params
    /\ tcrr.window_redundant_calls = 3

\* C4: batch redundancy: batch_redundant_calls is the sum over turns and
\* identities of max(0, occurrences in the turn - batch_threshold); three
\* identical calls in turn 1 with batch_threshold 2 give total 3,
\* batch_redundant 1, window_redundant 0, ratio 1/3.
C4_BatchRedundancy ==
    pc = "tcrr_done" =>
        /\ tcrr.batch_redundant_calls = Cardinality(BatchRedundantCalls)
        /\ (/\ Len(tool_calls) = 3
            /\ SameCall(1, 2) /\ SameCall(1, 3)
            /\ \A i \in 1..3 : TurnOf(i) = 1
            /\ config.batch_threshold = 2)
           => /\ tcrr.total_calls = 3
              /\ tcrr.batch_redundant_calls = 1
              /\ tcrr.window_redundant_calls = 0
              /\ tcrr.redundancy_ratio = <<1, 3>>

\* three identical calls in turn 1 under batch_threshold 2
C4_Witness ==
    /\ pc = "tcrr_done"
    /\ Len(tool_calls) = 3
    /\ SameCall(1, 2) /\ SameCall(1, 3)
    /\ \A i \in 1..3 : TurnOf(i) = 1
    /\ config.batch_threshold = 2
    /\ tcrr.batch_redundant_calls = 1

RECURSIVE SumOver(_, _)
SumOver(f, S) ==
    IF S = {} THEN 0
    ELSE LET x == CHOOSE y \in S : TRUE IN f[x] + SumOver(f, S \ {x})

\* C5: redundant_calls = window_redundant_calls + batch_redundant_calls,
\* total_calls is the number of input calls, the values of redundant_by_turn
\* sum to redundant_calls, and its keys are the turns present in the input.
C5_Totals ==
    pc = "tcrr_done" =>
        /\ tcrr.redundant_calls
              = tcrr.window_redundant_calls + tcrr.batch_redundant_calls
        /\ tcrr.total_calls = Len(tool_calls)
        /\ SumOver(tcrr.redundant_by_turn, DOMAIN tcrr.redundant_by_turn)
              = tcrr.redundant_calls
        /\ DOMAIN tcrr.redundant_by_turn = {TurnOf(i) : i \in 1..Len(tool_calls)}

\* both rules have counted, in two different turns
C5_Witness ==
    /\ pc = "tcrr_done"
    /\ tcrr.window_redundant_calls > 0
    /\ tcrr.batch_redundant_calls > 0
    /\ Cardinality(DOMAIN tcrr.redundant_by_turn) = 2
    /\ \A t \in DOMAIN tcrr.redundant_by_turn : tcrr.redundant_by_turn[t] > 0

\* C7 as claimed: with batch_threshold >= 1, redundant_calls <= total_calls
\* and 0 <= redundancy_ratio <= 1.
C7_RatioAtMostOne ==
    (pc = "tcrr_done" /\ config.batch_threshold >= 1) =>
        /\ tcrr.redundant_calls <= tcrr.total_calls
        /\ tcrr.redundancy_ratio[1] >= 0
        /\ tcrr.redundancy_ratio[1] <= tcrr.redundancy_ratio[2]

\* C7 as amended: with batch_threshold >= 1 each of the two counts is at most
\* total_calls, so redundant_calls <= 2 * total_calls and the ratio lies in
\* [0, 2]; redundant_calls <= total_calls when one of the two counts is 0.
C7_RatioAtMostTwo ==
    (pc = "tcrr_done" /\ config.batch_threshold >= 1) =>
        /\ tcrr.window_redundant_calls <= tcrr.total_calls
        /\ tcrr.batch_redundant_calls <= tcrr.total_calls
        /\ tcrr.redundant_calls <= 2 * tcrr.total_calls
        /\ tcrr.redundancy_ratio[1] >= 0
        /\ tcrr.redundancy_ratio[1] <= 2 * tcrr.redundancy_ratio[2]
        /\ (tcrr.window_redundant_calls = 0 \/ tcrr.batch_redundant_calls = 0)
              => tcrr.redundant_calls <= tcrr.total_calls

\* a call counted by both rules: more redundant calls than calls
C7_Witness ==
    /\ pc = "tcrr_done"
    /\ config.batch_threshold >= 1
    /\ tcrr.redundant_calls > tcrr.total_calls

----------------------------------------------------------------------------
(* PassHatK: agent_metrics.pass_hat_k *)

MaxTrials == 4

\* what a call that raised returns: no float
NoValue == <<>>

RECURSIVE CombProduct(_, _)
\* n * (n-1) * ... * (n-k+1) / k!, one factor at a time
CombProduct(n, k) ==
    IF k = 0 THEN 1 ELSE (CombProduct(n, k - 1) * (n - k + 1)) \div k

\* the number of draws with replacement, n^k
DrawsWithReplacement(n, k) ==
    IF n < 0 \/ k < 0 THEN [raised |-> "ValueError", value |-> 0]
    ELSE [raised |-> "", value |-> IF k = 0 THEN 1 ELSE n ^ k]

\* math.comb(n, k): ValueError for a negative argument, 0 when k > n
comb(n, k) ==
    IF n < 0 \/ k < 0 THEN [raised |-> "ValueError", value |-> 0]
    ELSE IF k > n THEN [raised |-> "", value |-> 0]
    ELSE [raised |-> "", value |-> CombProduct(n, k)]

\* a test that also refuses k = num_trials
NotMoreTrialsThanK(num_trials, k) == num_trials <= k

\* agent_metrics.py line 228
TooFewTrials(num_trials, k) == num_trials < k

\* agent_metrics.py lines 228-230; the float returned is kept as a fraction
pass_hat_k(num_trials, success_count, k) ==
    IF TooFewTrials(num_trials, k)
    THEN [raised |-> "ValueError", value |-> NoValue]
    ELSE LET num == comb(success_count, k)
             den == comb(num_trials, k)
         IN IF num.raised # "" THEN [raised |-> num.raised, value |-> NoValue]
            ELSE IF den.raised # "" THEN [raised |-> den.raised, value |-> NoValue]
            ELSE IF den.value = 0
                 THEN [raised |-> "ZeroDivisionError", value |-> NoValue]
            ELSE [raised |-> "", value |-> Div(num.value, den.value)]

InitPassK ==
    /\ pc = "trials"
    /\ trials \in [num_trials : -1..MaxTrials, success_count : -1..MaxTrials,
                   k : -1..MaxTrials]
    /\ passk = None
    /\ IdleCanon /\ IdleExtract /\ IdleTcrr /\ IdleResults
    /\ IdleEnv

PassHatK ==
    /\ pc = "trials"
    /\ passk' = pass_hat_k(trials.num_trials, trials.success_count, trials.k)
    /\ pc' = "passk_done"
    /\ UNCHANGED <<env, args, args2, canon, messages, tool_calls, config, tcrr, trials,
                   results, report>>

NextPassK == PassHatK

SpecPassK == InitPassK /\ [][NextPassK]_vars

RECURSIVE Factorial(_)
Factorial(n) == IF n = 0 THEN 1 ELSE n * Factorial(n - 1)

\* the binomial coefficient C(n, k) for 0 <= k <= n, and 0 for k > n
Binomial(n, k) ==
    IF k > n THEN 0 ELSE Factorial(n) \div (Factorial(k) * Factorial(n - k))

InRange ==
    /\ 0 <= trials.success_count /\ trials.success_count <= trials.num_trials
    /\ 0 <= trials.k /\ trials.k <= trials.num_trials

\* C8: for 0 <= success_count <= num_trials and 0 <= k <= num_trials,
\* pass_hat_k returns exactly C(success_count, k) / C(num_trials, k):
\* (4, 3, 2) gives 1/2, it is 0 when success_count < k and 1 when
\* success_count = num_trials.
C8_PassHatKValue ==
    (pc = "passk_done" /\ InRange) =>
        /\ passk.raised = ""
        /\ passk.value[2] > 0
        /\ passk.value[1] * Binomial(trials.num_trials, trials.k)
              = passk.value[2] * Binomial(trials.success_count, trials.k)
        /\ passk.value = Div(passk.value[1], passk.value[2])
        /\ trials = [num_trials |-> 4, success_count |-> 3, k |-> 2]
              => passk.value = <<1, 2>>
        /\ trials.success_count < trials.k => passk.value = Zero
        /\ trials.success_count = trials.num_trials => passk.value = <<1, 1>>

\* pass_hat_k(4, 3, 2) has returned
C8_Witness ==
    /\ pc = "passk_done"
    /\ trials = [num_trials |-> 4, success_count |-> 3, k |-> 2]
    /\ passk.raised = ""

\* C9: pass_hat_k fails with ValueError, returning nothing, whenever
\* num_trials < k; for non-negative arguments with num_trials >= k it never
\* fails.
C9_PassHatKInvalid ==
    pc = "passk_done" =>
        /\ trials.num_trials < trials.k
              => passk.raised = "ValueError" /\ passk.value = NoValue
        /\ (/\ trials.num_trials >= 0 /\ trials.success_count >= 0 /\ trials.k >= 0
            /\ trials.num_trials >= trials.k)
              => passk.raised = "" /\ passk.value # NoValue

\* pass_hat_k(2, s, 3) has failed
C9_Witness ==
    /\ pc = "passk_done"
    /\ trials.num_trials = 2 /\ trials.k = 3
    /\ passk.raised = "ValueError"

----------------------------------------------------------------------------
(* Results, and agent_metrics.get_metrics_df *)

MaxDeclaredTrials == 3
MaxSims == 4

Tasks == {"t1", "t2"}

\* rewards, as fractions
Rewards == {Zero, <<1, 1>>}

\* agent_metrics.py line 19: (1 - 1e-6) <= reward <= (1 + 1e-6)
is_successful(reward) ==
    /\ 999999 * reward[2] <= 1000000 * reward[1]
    /\ 1000000 * reward[1] <= 1000001 * reward[2]

\* Results.to_df(): one row per simulation run, carrying the run's task, the
\* number of trials declared for that task and the run's reward
to_df(res) ==
    [i \in 1..Len(res.simulations) |->
        [task_id |-> res.simulations[i].task_id,
         info_num_trials |-> res.tasks[res.simulations[i].task_id],
         reward |-> res.simulations[i].reward]]

SetMax(S) == CHOOSE x \in S : \A y \in S : y <= x
SetMin(S) == CHOOSE x \in S : \A y \in S : x <= y

\* df.task_id.value_counts(): task -> number of rows
ValueCounts(df) ==
    [t \in {df[i].task_id : i \in 1..Len(df)} |->
        Cardinality({i \in 1..Len(df) : df[i].task_id = t})]

\* agent_metrics.py lines 247-249: the smallest run count of a task
MinK(df) == LET counts == ValueCounts(df)
            IN SetMin({counts[t] : t \in DOMAIN counts})

\* max_k left as declared
KeepMaxK(min_k, max_k) == max_k

\* agent_metrics.py lines 250-254
ClampMaxK(min_k, max_k) == IF min_k < max_k THEN min_k ELSE max_k

\* agent_metrics.py lines 239-255; an empty frame has no columns to read, and
\* a missing reward is NaN in the frame, with which no comparison holds
get_metrics_df(res) ==
    LET rows == to_df(res)
    IN IF rows = <<>>
       THEN [raised |-> "Exception", df |-> <<>>, max_k |-> 0, warnings |-> {}]
       ELSE LET df == [i \in 1..Len(rows) |->
                          [task_id |-> rows[i].task_id,
                           info_num_trials |-> rows[i].info_num_trials,
                           reward |-> rows[i].reward,
                           success |-> /\ rows[i].reward # NoValue
                                       /\ is_successful(rows[i].reward)]]
                unique == {df[i].info_num_trials : i \in 1..Len(df)}
                max_k == SetMax(unique)
                min_k == MinK(df)
            IN [raised |-> "",
                df |-> df,
                max_k |-> ClampMaxK(min_k, max_k),
                warnings |->
                    (IF Cardinality(unique) > 1 THEN {"inconsistent_trials"} ELSE {})
                    \cup (IF min_k < max_k THEN {"min_trials"} ELSE {})]

InitResults ==
    /\ pc = "results"
    /\ results \in {[tasks |-> d, simulations |-> <<>>] :
                       d \in [Tasks -> 1..MaxDeclaredTrials]}
    /\ report = None
    /\ IdleCanon /\ IdleExtract /\ IdleTcrr /\ IdlePassK
    /\ IdleEnv

\* one more trial of a task has been run and scored
AddSimulation ==
    /\ pc = "results"
    /\ Len(results.simulations) < MaxSims
    /\ \E task_id \in Tasks : \E reward \in Rewards :
          results' = [results EXCEPT !.simulations =
                         Append(@, [task_id |-> task_id, reward |-> reward,
                                    agent_cost |-> Zero, messages |-> <<>>])]
    /\ UNCHANGED <<env, pc, args, args2, canon, messages, tool_calls, config, tcrr,
                   trials, passk, report>>

GetMetricsDf ==
    /\ pc = "results"
    /\ report' = get_metrics_df(results)
    /\ pc' = "df_done"
    /\ UNCHANGED <<env, args, args2, canon, messages, tool_calls, config, tcrr, trials,
                   passk, results>>

NextMetricsDf == AddSimulation \/ GetMetricsDf

SpecMetricsDf == InitResults /\ [][NextMetricsDf]_vars

RunsOf(task_id) ==
    Cardinality({i \in 1..Len(results.simulations) :
                    results.simulations[i].task_id = task_id})

TasksWithRuns == {t \in Tasks : RunsOf(t) > 0}

LargestDeclared == SetMax({results.tasks[t] : t \in TasksWithRuns})

\* C10: max_k clamping: for a non-empty Results, max_k never exceeds the
\* number of runs of any task (that has runs); when some task has fewer runs
\* than the largest declared trial count, max_k is the minimum run count over
\* tasks and a warning is logged.
C10_MaxKClamped ==
    (pc = "df_done" /\ results.simulations # <<>>) =>
        /\ report.raised = ""
        /\ report.max_k >= 1
        /\ \A t \in TasksWithRuns : report.max_k <= RunsOf(t)
        /\ (\E t \in TasksWithRuns : RunsOf(t) < LargestDeclared)
              => /\ report.max_k = SetMin({RunsOf(t) : t \in TasksWithRuns})
                 /\ "min_trials" \in report.warnings

\* a task with fewer runs than declared: max_k was clamped, with the warning
C10_Witness ==
    /\ pc = "df_done"
    /\ TasksWithRuns = Tasks
    /\ RunsOf("t1") = 1 /\ RunsOf("t2") = 3
    /\ results.tasks["t1"] = 3
    /\ report.max_k = 1
    /\ "min_trials" \in report.warnings

----------------------------------------------------------------------------
(* MetricsAggregator: agent_metrics.compute_metrics *)

MaxRuns == 2

\* float arithmetic, kept exact on fractions <<numerator, denominator>>
FAdd(a, b) == Div(a[1] * b[2] + b[1] * a[2], a[2] * b[2])
FSub(a, b) == Div(a[1] * b[2] - b[1] * a[2], a[2] * b[2])
FMul(a, b) == Div(a[1] * b[1], a[2] * b[2])
FQuot(a, b) == Div(a[1] * b[2], a[2] * b[1])
FLess(a, b) == a[1] * b[2] < b[1] * a[2]
FMax(a, b) == IF FLess(a, b) THEN b ELSE a
FMin(a, b) == IF FLess(b, a) THEN b ELSE a
One == <<1, 1>>
Half == <<1, 2>>

RECURSIVE FSum(_)
FSum(s) == IF s = <<>> THEN Zero ELSE FAdd(s[1], FSum(Tail(s)))

\* np.mean of a non-empty list
FMean(s) == FQuot(FSum(s), <<Len(s), 1>>)

\* agent_metrics.py lines 22-29, on a value that is None or a float
safe_float(val) == IF val = NoValue THEN Zero ELSE val

Msg_user == PlainMessage("user", <<>>, 0)

\* an assistant message that carries a cost
CostedMessage(calls, turn_idx, cost) ==
    [role |-> "assistant", tool_calls |-> calls, turn_idx |-> turn_idx,
     id |-> "", error |-> FALSE, content |-> <<>>, cost |-> cost]

\* the transcripts a simulation run can have
Transcripts ==
    {<<Msg_user, PlainMessage("assistant", <<>>, 1)>>,
     <<Msg_user, PlainMessage("assistant", <<ToolCallOf("c1")>>, 1),
       ToolMessage("c1", <<FALSE, <<111, 107>>>>, 2),
       PlainMessage("assistant", <<ToolCallOf("c2")>>, 3)>>,
     <<Msg_user, PlainMessage("assistant", <<ToolCallOf("c3")>>, 1),
       ToolMessage("c3", <<TRUE, <<78, 111, 116, 32, 102, 111, 117, 110, 100>>>>, 2)>>,
     <<Msg_user, CostedMessage(<<ToolCallOf("c1"), ToolCallOf("c3")>>, 1, Half),
       ToolMessage("c3", <<TRUE, <<73, 110, 118, 97, 108, 105, 100, 32, 97, 114,
                                   103, 117, 109, 101, 110, 116>>>>, 2)>>}

\* agent_metrics.py line 119: safe_float(msg.cost) if hasattr(msg, "cost")
MessageCost(msg) == IF "cost" \in DOMAIN msg THEN safe_float(msg.cost) ELSE Zero

\* agent_metrics.py lines 116-123, for every call of one message; latency
\* stays 0.0 (lines 106-114)
CallMetrics(tool_results, msg) ==
    [i \in 1..Len(msg.tool_calls) |->
        [name |-> msg.tool_calls[i].name,
         params |-> msg.tool_calls[i].arguments,
         cost |-> MessageCost(msg),
         latency |-> Zero,
         correct |-> CallCorrect(tool_results, msg.tool_calls[i]),
         params_valid |-> CallParamsValid(tool_results, msg.tool_calls[i])]]

RECURSIVE ScanAssistantCallMetrics(_, _)
\* a scan that reads the calls of assistant messages only
ScanAssistantCallMetrics(tool_results, msgs) ==
    IF msgs = <<>> THEN <<>>
    ELSE (IF msgs[1].role = "assistant" /\ msgs[1].tool_calls # <<>>
          THEN CallMetrics(tool_results, msgs[1])
          ELSE <<>>)
         \o ScanAssistantCallMetrics(tool_results, Tail(msgs))

RECURSIVE ScanCallMetrics(_, _)
\* agent_metrics.py lines 73-123
ScanCallMetrics(tool_results, msgs) ==
    IF msgs = <<>> THEN <<>>
    ELSE (IF HasToolCalls(msgs[1]) /\ msgs[1].tool_calls # <<>>
          THEN CallMetrics(tool_results, msgs[1])
          ELSE <<>>)
         \o ScanCallMetrics(tool_results, Tail(msgs))

extract_tool_calls_from_messages(msgs) == ScanCallMetrics(ToolResults(msgs), msgs)

RECURSIVE AllToolCalls(_)
\* agent_metrics.py lines 326-329
AllToolCalls(simulations) ==
    IF simulations = <<>> THEN <<>>
    ELSE extract_tool_calls_from_messages(simulations[1].messages)
         \o AllToolCalls(Tail(simulations))

RECURSIVE Hashable(_)
\* whether hash(v) succeeds: a list or a dict, or a tuple holding one, has no hash
Hashable(v) ==
    CASE Tag(v) \in {"list", "dict"} -> FALSE
      [] Tag(v) = "tuple" -> \A i \in 1..Len(Val(v)) : Hashable(Val(v)[i])
      [] OTHER -> TRUE

\* agent_metrics.py lines 361-372: the identity that is looked up in seen_calls
SimpleIdentity(call) ==
    LET params_norm == agent_metrics_normalized_params(call.params)
    IN IF Hashable(params_norm)
       THEN <<call.name, params_norm>>
       ELSE <<call.name, PStr(Str(call.params))>>

RECURSIVE DuplicateCount(_, _)
\* agent_metrics.py lines 357-372
DuplicateCount(calls, seen_calls) ==
    IF calls = <<>> THEN 0
    ELSE LET identity == SimpleIdentity(calls[1])
         IN IF identity \in seen_calls
            THEN 1 + DuplicateCount(Tail(calls), seen_calls)
            ELSE DuplicateCount(Tail(calls), seen_calls \cup {identity})

\* int(tcrr * n), agent_metrics.py line 376; the float product is below the
\* exact one for some counts, the smallest being 15 duplicates of 22 calls, and
\* is exact for every n below 22
IntOfProduct(ratio, n) == (ratio[1] * n) \div ratio[2]

\* agent_metrics.py lines 333-446, the TCRR fields. tcrr.py has no
\* compute_tcrr_enhanced, so the import at line 336 raises and lines 354-377 run.
TcrrFields(all_tool_calls) ==
    IF all_tool_calls # <<>>
    THEN LET duplicate_count == DuplicateCount(all_tool_calls, {})
             ratio == Div(duplicate_count, Len(all_tool_calls))
         IN [tcrr |-> ratio,
             tcrr_window_size |-> 3,
             tcrr_total_calls |-> Len(all_tool_calls),
             tcrr_redundant_calls |-> IntOfProduct(ratio, Len(all_tool_calls)),
             tcrr_by_task |-> EmptyMap]
    ELSE [tcrr |-> Zero,
          tcrr_window_size |-> 3,
          tcrr_total_calls |-> 0,
          tcrr_redundant_calls |-> 0,
          tcrr_by_task |-> EmptyMap]

\* the reward of a run: sim.reward_info.reward if sim.reward_info else 0.0
RunReward(sim) == IF sim.reward = NoValue THEN Zero ELSE sim.reward

\* agent_metrics.py lines 268-272
AvgReward(simulations) ==
    IF simulations = <<>> THEN Zero
    ELSE FMean([i \in 1..Len(simulations) |-> RunReward(simulations[i])])

\* agent_metrics.py lines 275-278: sim.agent_cost if sim.agent_cost else 0.0
AvgAgentCost(simulations) ==
    IF simulations = <<>> THEN Zero
    ELSE FMean([i \in 1..Len(simulations) |-> safe_float(simulations[i].agent_cost)])

\* agent_metrics.py lines 284-291: task_id -> the success flags of its runs
TaskGroups(simulations) ==
    [t \in {simulations[i].task_id : i \in 1..Len(simulations)} |->
        SelectSeq([i \in 1..Len(simulations) |->
                      <<simulations[i].task_id,
                        is_successful(RunReward(simulations[i]))>>],
                  LAMBDA x : x[1] = t)]

\* agent_metrics.py line 296: sum(successes) / len(successes)
SuccessRate(successes) ==
    Div(Cardinality({i \in 1..Len(successes) : successes[i][2]}), Len(successes))

RECURSIVE SumRates(_, _)
SumRates(groups, ids) ==
    IF ids = {} THEN Zero
    ELSE LET t == CHOOSE x \in ids : TRUE
         IN FAdd(SuccessRate(groups[t]), SumRates(groups, ids \ {t}))

\* agent_metrics.py lines 281-299: only the key 1 is ever set
SimplePassHatKs(simulations) ==
    IF simulations = <<>> THEN [k \in {} |-> Zero]
    ELSE LET groups == TaskGroups(simulations)
         IN [k \in {1} |->
                FQuot(SumRates(groups, DOMAIN groups),
                      <<Cardinality(DOMAIN groups), 1>>)]

DefaultTsrWeights ==
    [communicate_info |-> <<1, 2>>, action |-> <<3, 10>>, nl_assertion |-> <<1, 5>>]

\* what tau2.metrics.tsr.compute_tsr_enhanced delivers when it does not fail
TsrEnhancedResult(res) ==
    [tsr |-> <<3, 4>>, tsr_communicate_info |-> One, tsr_action |-> Half,
     tsr_nl_assertion |-> Half, tsr_weights |-> DefaultTsrWeights,
     tsr_by_task |-> [t \in {res.simulations[i].task_id :
                                i \in 1..Len(res.simulations)} |-> <<3, 4>>]]

\* a fallback that counts the runs is_successful accepts
TsrFallbackBySuccess(res) ==
    LET success_count ==
            Cardinality({i \in 1..Len(res.simulations) :
                            is_successful(RunReward(res.simulations[i]))})
    IN [tsr |-> IF res.simulations # <<>>
                THEN Div(success_count, Len(res.simulations)) ELSE Zero,
        tsr_communicate_info |-> Zero, tsr_action |-> Zero,
        tsr_nl_assertion |-> Zero, tsr_weights |-> DefaultTsrWeights,
        tsr_by_task |-> EmptyMap]

\* agent_metrics.py lines 313-323
TsrFallback(res) ==
    LET success_count ==
            Cardinality({i \in 1..Len(res.simulations) :
                            /\ res.simulations[i].reward # NoValue
                            /\ FLess(Zero, safe_float(res.simulations[i].reward))})
    IN [tsr |-> IF res.simulations # <<>>
                THEN Div(success_count, Len(res.simulations)) ELSE Zero,
        tsr_communicate_info |-> Zero, tsr_action |-> Zero,
        tsr_nl_assertion |-> Zero, tsr_weights |-> DefaultTsrWeights,
        tsr_by_task |-> EmptyMap]

\* one try block around the TSR and the GSRT scorer
TsrFieldsUnderSharedTry(res, scorers) ==
    IF scorers.tsr = "ok" /\ scorers.gsrt = "ok"
    THEN TsrEnhancedResult(res) ELSE TsrFallback(res)

\* agent_metrics.py lines 302-323
TsrFields(res, scorers) ==
    IF scorers.tsr = "ok" THEN TsrEnhancedResult(res) ELSE TsrFallback(res)

RECURSIVE SortFloats(_)
\* ascending order, as np.percentile arranges its data
SortFloats(s) ==
    IF s = <<>> THEN <<>>
    ELSE LET m == CHOOSE i \in 1..Len(s) : \A j \in 1..Len(s) : ~FLess(s[j], s[i])
         IN <<s[m]>> \o SortFloats(SubSeq(s, 1, m - 1) \o SubSeq(s, m + 1, Len(s)))

\* np.percentile(data, 95), linear interpolation between the two nearest ranks
Percentile95(data) ==
    LET a == SortFloats(data)
        n == Len(a)
        lo == (19 * (n - 1)) \div 20
        frac == Div((19 * (n - 1)) % 20, 20)
    IN IF lo + 1 >= n THEN a[n]
       ELSE FAdd(a[lo + 1], FMul(frac, FSub(a[lo + 2], a[lo + 1])))

\* agent_metrics.py lines 406-411, costs
CostCap(all_tool_calls) ==
    LET all_costs == SelectSeq([i \in 1..Len(all_tool_calls) |-> all_tool_calls[i].cost],
                               LAMBDA c : FLess(Zero, c))
    IN FMax(IF all_costs # <<>> THEN Percentile95(all_costs) ELSE One, <<1, 1000>>)

\* agent_metrics.py lines 417-418
CostTerm(all_tool_calls) ==
    LET cost_cap == CostCap(all_tool_calls)
        total_cost == FSum([i \in 1..Len(all_tool_calls) |-> all_tool_calls[i].cost])
    IN IF FLess(Zero, cost_cap)
       THEN FMax(Zero, FMin(One, FSub(One, FQuot(total_cost, cost_cap))))
       ELSE One

\* agent_metrics.py lines 407-425: no call has a latency above 0, so
\* valid_latencies is empty and the else branch sets 1.0
LatencyTerm(all_tool_calls) == One

CorrectCalls(all_tool_calls) ==
    Cardinality({i \in 1..Len(all_tool_calls) : all_tool_calls[i].correct})

ValidParamCalls(all_tool_calls) ==
    Cardinality({i \in 1..Len(all_tool_calls) : all_tool_calls[i].params_valid})

\* a blend whose cost term is left out
BlendWithoutCost(T_correct, P_params, C_cost, L_latency) ==
    FAdd(FAdd(FMul(<<2, 5>>, T_correct), FMul(<<1, 4>>, P_params)),
         FMul(<<3, 20>>, L_latency))

\* agent_metrics.py line 426
TueBlend(T_correct, P_params, C_cost, L_latency) ==
    FAdd(FAdd(FMul(<<2, 5>>, T_correct), FMul(<<1, 4>>, P_params)),
         FAdd(FMul(<<1, 5>>, C_cost), FMul(<<3, 20>>, L_latency)))

\* agent_metrics.py lines 403-434, for a non-empty all_tool_calls
TueFallback(all_tool_calls) ==
    LET num_total == Len(all_tool_calls)
        num_correct == CorrectCalls(all_tool_calls)
        num_valid_params == ValidParamCalls(all_tool_calls)
    IN [tue |-> TueBlend(Div(num_correct, num_total), Div(num_valid_params, num_total),
                         CostTerm(all_tool_calls), LatencyTerm(all_tool_calls)),
        tue_tool_correctness |-> Div(num_correct, num_total),
        tue_param_accuracy |-> Div(num_valid_params, num_total),
        tue_correct_calls |-> num_correct,
        tue_valid_param_calls |-> num_valid_params,
        tue_by_task |-> EmptyMap]

\* what tau2.metrics.tue delivers when it does not fail: the two rates as the
\* scorer's contract defines them, an overall score, and a per-task breakdown
TueEnhancedResult(res, all_tool_calls) ==
    [tue |-> Half,
     tue_tool_correctness |-> Div(CorrectCalls(all_tool_calls), Len(all_tool_calls)),
     tue_param_accuracy |-> Div(ValidParamCalls(all_tool_calls), Len(all_tool_calls)),
     tue_correct_calls |-> CorrectCalls(all_tool_calls),
     tue_valid_param_calls |-> ValidParamCalls(all_tool_calls),
     tue_by_task |-> [t \in {res.simulations[i].task_id :
                                i \in 1..Len(res.simulations)} |-> Half]]

\* lines 379-446 without the assignments of the branch at lines 435-446
TueFieldsOfCallsOnly(res, all_tool_calls, scorers) ==
    IF all_tool_calls # <<>>
    THEN IF scorers.tue = "ok" THEN TueEnhancedResult(res, all_tool_calls)
         ELSE TueFallback(all_tool_calls)
    ELSE [tue_by_task |-> EmptyMap]

\* agent_metrics.py lines 379-446
TueFields(res, all_tool_calls, scorers) ==
    IF all_tool_calls # <<>>
    THEN IF scorers.tue = "ok" THEN TueEnhancedResult(res, all_tool_calls)
         ELSE TueFallback(all_tool_calls)
    ELSE [tue |-> Zero, tue_tool_correctness |-> Zero, tue_param_accuracy |-> Zero,
          tue_correct_calls |-> 0, tue_valid_param_calls |-> 0,
          tue_by_task |-> EmptyMap]

\* what tau2.metrics.gsrt.compute_gsrt_enhanced_metrics delivers when neither
\* it nor its judge fails
GsrtEnhancedResult(res) ==
    [gsrt_median_ack |-> One, gsrt_median_tool |-> <<2, 1>>,
     gsrt_median_outcome |-> <<3, 1>>, gsrt_num_shifts |-> 1,
     gsrt_recovery_rate |-> One, gsrt_transfer_rate |-> Zero,
     gsrt_never_recovered_rate |-> Zero,
     gsrt_by_task |-> [t \in {res.simulations[i].task_id :
                                 i \in 1..Len(res.simulations)} |-> One]]

\* a fallback that reports medians of 0.0
GsrtFallbackZeroMedians ==
    [gsrt_median_ack |-> Zero, gsrt_median_tool |-> Zero,
     gsrt_median_outcome |-> Zero, gsrt_num_shifts |-> 0,
     gsrt_recovery_rate |-> Zero, gsrt_transfer_rate |-> Zero,
     gsrt_never_recovered_rate |-> Zero, gsrt_by_task |-> EmptyMap]

\* agent_metrics.py lines 479-484
GsrtFallback ==
    [gsrt_median_ack |-> NoValue, gsrt_median_tool |-> NoValue,
     gsrt_median_outcome |-> NoValue, gsrt_num_shifts |-> 0,
     gsrt_recovery_rate |-> Zero, gsrt_transfer_rate |-> Zero,
     gsrt_never_recovered_rate |-> Zero, gsrt_by_task |-> EmptyMap]

\* agent_metrics.py lines 448-484
GsrtFields(res, scorers) ==
    IF scorers.gsrt = "ok" THEN GsrtEnhancedResult(res) ELSE GsrtFallback

\* the outcomes of the enhanced scorers that live outside this module
ScorerOutcomes == [tsr : {"ok", "fail"}, tue : {"ok", "fail"}, gsrt : {"ok", "fail"}]

\* a record holding the fields of r and of q
Merge(r, q) ==
    [f \in DOMAIN r \cup DOMAIN q |-> IF f \in DOMAIN r THEN r[f] ELSE q[f]]

\* the fields of AgentMetrics (agent_metrics.py lines 145-180)
AgentMetricsFields ==
    {"avg_reward", "pass_hat_ks", "avg_agent_cost", "tsr", "tue", "tcrr",
     "num_tool_calls", "tsr_communicate_info", "tsr_action", "tsr_nl_assertion",
     "tsr_weights", "tsr_by_task", "tue_tool_correctness", "tue_param_accuracy",
     "tue_correct_calls", "tue_valid_param_calls", "tue_by_task",
     "tcrr_window_size", "tcrr_total_calls", "tcrr_redundant_calls",
     "tcrr_by_task", "gsrt_median_ack", "gsrt_median_tool", "gsrt_median_outcome",
     "gsrt_num_shifts", "gsrt_recovery_rate", "gsrt_transfer_rate",
     "gsrt_never_recovered_rate", "gsrt_by_task"}

\* agent_metrics.py lines 258-516: the local variables the branches taken have
\* assigned, handed to AgentMetrics(...) at lines 486-516; reading a variable
\* that no branch assigned raises UnboundLocalError
compute_metrics_simple(res, scorers) ==
    LET all_tool_calls == AllToolCalls(res.simulations)
        locals ==
            Merge([avg_reward |-> AvgReward(res.simulations),
                   pass_hat_ks |-> SimplePassHatKs(res.simulations),
                   avg_agent_cost |-> AvgAgentCost(res.simulations),
                   num_tool_calls |-> Len(all_tool_calls)],
            Merge(TsrFields(res, scorers),
            Merge(TcrrFields(all_tool_calls),
            Merge(TueFields(res, all_tool_calls, scorers),
                  GsrtFields(res, scorers)))))
    IN Merge([raised |-> IF AgentMetricsFields \subseteq DOMAIN locals
                         THEN "" ELSE "UnboundLocalError"],
             locals)

\* agent_metrics.py lines 531-536: get_metrics_df raises on an empty frame;
\* otherwise its second result is an integer, and reading .columns of it raises
FullComputationRaises(res) ==
    LET r == get_metrics_df(res)
    IN IF r.raised # "" THEN r.raised ELSE "AttributeError"

\* agent_metrics.py lines 519-762: the full computation always raises inside
\* the try, so the handler at lines 758-762 returns the simple computation;
\* fallback_cause is the exception the warning at line 759 logs
compute_metrics(res, scorers) ==
    Merge([fallback_cause |-> FullComputationRaises(res)],
          compute_metrics_simple(res, scorers))

InitMetrics ==
    /\ pc = "runs"
    /\ results \in {[tasks |-> d, simulations |-> <<>>] :
                       d \in [Tasks -> {MaxRuns}]}
    /\ report = None
    /\ IdleCanon /\ IdleExtract /\ IdleTcrr /\ IdlePassK
    /\ IdleEnv

\* how a run can end: (reward, agent cost), NoValue standing for a run
\* without reward information or without an agent cost
RunOutcomes == {<<One, Half>>, <<Half, NoValue>>, <<NoValue, Zero>>}

\* a finished simulation run, with its transcript, joins the results
AddRun ==
    /\ pc = "runs"
    /\ Len(results.simulations) < MaxRuns
    /\ \E task_id \in Tasks : \E outcome \in RunOutcomes : \E msgs \in Transcripts :
          results' = [results EXCEPT !.simulations =
                         Append(@, [task_id |-> task_id, reward |-> outcome[1],
                                    agent_cost |-> outcome[2], messages |-> msgs])]
    /\ UNCHANGED <<env, pc, args, args2, canon, messages, tool_calls, config, tcrr,
                   trials, passk, report>>

ComputeMetrics ==
    /\ pc \in {"runs", "results"}
    /\ \E scorers \in ScorerOutcomes :
          /\ config' = scorers
          /\ report' = compute_metrics(results, scorers)
    /\ pc' = "metrics_done"
    /\ UNCHANGED <<env, args, args2, canon, messages, tool_calls, tcrr, trials, passk,
                   results>>

NextMetrics == AddRun \/ ComputeMetrics

SpecMetrics == InitMetrics /\ [][NextMetrics]_vars

\* TCRR as the analyzer computes it and as the aggregator reports it
SpecTcrrMetrics == (InitTcrr \/ InitMetrics) /\ [][NextTcrr \/ NextMetrics]_vars

\* the runs hold no tool call at all
NoToolCalls ==
    \A i \in 1..Len(results.simulations) :
        \A m \in 1..Len(results.simulations[i].messages) :
            results.simulations[i].messages[m].tool_calls = <<>>

\* C6: redundancy_ratio = redundant_calls / total_calls whenever
\* total_calls > 0; with no tool calls the analysis returns total = 0,
\* redundant = 0, window_redundant = 0, batch_redundant = 0 and ratio = 0.0
\* without raising; and compute_metrics on transcripts with no tool calls
\* reports tcrr = 0.0, tcrr_total_calls = 0 and tcrr_redundant_calls = 0.
C6_RatioAndEmptyInput ==
    /\ pc = "tcrr_done" =>
          /\ tcrr.total_calls > 0 =>
                tcrr.redundancy_ratio = Div(tcrr.redundant_calls, tcrr.total_calls)
          /\ tool_calls = <<>> =>
                /\ tcrr.total_calls = 0
                /\ tcrr.redundant_calls = 0
                /\ tcrr.window_redundant_calls = 0
                /\ tcrr.batch_redundant_calls = 0
                /\ tcrr.redundancy_ratio = Zero
    /\ (pc = "metrics_done" /\ NoToolCalls) =>
          /\ report.raised = ""
          /\ report.tcrr = Zero
          /\ report.tcrr_total_calls = 0
          /\ report.tcrr_redundant_calls = 0

\* the analysis of an empty list of calls, under a batch threshold of 0
C6_Witness ==
    /\ pc = "tcrr_done"
    /\ tool_calls = <<>>
    /\ config.batch_threshold = 0
    /\ tcrr.total_calls = 0
    /\ tcrr.redundancy_ratio = Zero

\* runs whose transcripts hold messages but no tool call, aggregated
C6_WitnessMetrics ==
    /\ pc = "metrics_done"
    /\ NoToolCalls
    /\ Len(results.simulations) = MaxRuns
    /\ \A i \in 1..MaxRuns : results.simulations[i].messages # <<>>
    /\ report.tcrr = Zero
    /\ report.fallback_cause = "AttributeError"

----------------------------------------------------------------------------
(* The report of compute_metrics *)

\* compute_metrics over results whose runs hold no messages
SpecPassHatKs == InitResults /\ [][AddSimulation \/ ComputeMetrics]_vars

\* every task has n runs and declares n trials
EveryTaskHas(n) == \A t \in Tasks : RunsOf(t) = n /\ results.tasks[t] = n

\* C11: the report of compute_metrics carries a pass^k value for every k from
\* 1 to max_k: when every task has n >= 2 runs and declares n trials,
\* pass_hat_ks has an entry for each k in 1..n.
C11_PassHatKsUpToMaxK ==
    pc = "metrics_done" =>
        \A n \in 2..MaxSims :
            EveryTaskHas(n) => \A k \in 1..n : k \in DOMAIN report.pass_hat_ks

\* C12: compute_metrics never raises for a well-formed Results (zero
\* simulations, runs without reward information or agent cost, any combination
\* of failing enhanced scorers): the primary path having failed, the simplified
\* computation runs and returns a report with every field set.
C12_NeverRaises ==
    pc = "metrics_done" =>
        /\ report.raised = ""
        /\ report.fallback_cause # ""
        /\ AgentMetricsFields \subseteq DOMAIN report

\* every enhanced scorer failed, on runs without tool calls of which one has
\* no reward information and one no agent cost
C12_Witness ==
    /\ pc = "metrics_done"
    /\ config = [tsr |-> "fail", tue |-> "fail", gsrt |-> "fail"]
    /\ Len(results.simulations) = 2
    /\ NoToolCalls
    /\ results.simulations[1].reward = NoValue
    /\ results.simulations[2].agent_cost = NoValue
    /\ report.raised = ""

\* the runs that have reward information with a reward above 0
PositiveRuns ==
    {i \in 1..Len(results.simulations) :
        /\ results.simulations[i].reward # NoValue
        /\ results.simulations[i].reward[1] > 0}

MetricFields ==
    [tsr |-> {"tsr", "tsr_communicate_info", "tsr_action", "tsr_nl_assertion",
              "tsr_weights", "tsr_by_task"},
     tue |-> {"tue", "tue_tool_correctness", "tue_param_accuracy",
              "tue_correct_calls", "tue_valid_param_calls", "tue_by_task"},
     gsrt |-> {"gsrt_median_ack", "gsrt_median_tool", "gsrt_median_outcome",
               "gsrt_num_shifts", "gsrt_recovery_rate", "gsrt_transfer_rate",
               "gsrt_never_recovered_rate", "gsrt_by_task"}]

\* the same scorer outcomes with the outcome of scorer m turned round
Flipped(scorers, m) ==
    [scorers EXCEPT ![m] = IF @ = "ok" THEN "fail" ELSE "ok"]

\* C14: per-metric fault isolation: for the same Results, whether one enhanced
\* scorer fails or not changes only that metric's own report fields; the fields
\* of the other metrics, avg_reward, avg_agent_cost and num_tool_calls are the
\* same in both reports.
C14_FaultIsolation ==
    pc = "metrics_done" =>
        \A m \in DOMAIN MetricFields :
            LET other == compute_metrics(results, Flipped(config, m))
            IN \A f \in (AgentMetricsFields \cup {"raised"}) \ MetricFields[m] :
                   report[f] = other[f]

\* only the TSR scorer failed, on runs with tool calls: the TSR fields are the
\* fallback's, the TUE and GSRT fields the enhanced scorers'
C14_Witness ==
    /\ pc = "metrics_done"
    /\ config = [tsr |-> "fail", tue |-> "ok", gsrt |-> "ok"]
    /\ report.num_tool_calls > 0
    /\ DOMAIN report.tsr_by_task = {}
    /\ report.tue = TueEnhancedResult(results, AllToolCalls(results.simulations)).tue
    /\ report.gsrt_num_shifts = 1

\* C15: when the GSRT scorer (or its judge) fails, the report has
\* gsrt_num_shifts = 0, the three medians null, the recovery, transfer and
\* never-recovered rates 0.0 and an empty gsrt_by_task, and nothing raises.
C15_GsrtFailure ==
    (pc = "metrics_done" /\ config.gsrt = "fail") =>
        /\ report.raised = ""
        /\ report.gsrt_num_shifts = 0
        /\ report.gsrt_median_ack = NoValue
        /\ report.gsrt_median_tool = NoValue
        /\ report.gsrt_median_outcome = NoValue
        /\ report.gsrt_recovery_rate = Zero
        /\ report.gsrt_transfer_rate = Zero
        /\ report.gsrt_never_recovered_rate = Zero
        /\ DOMAIN report.gsrt_by_task = {}

\* the GSRT scorer alone failed, on two runs
C15_Witness ==
    /\ pc = "metrics_done"
    /\ config = [tsr |-> "ok", tue |-> "ok", gsrt |-> "fail"]
    /\ Len(results.simulations) = 2
    /\ report.gsrt_num_shifts = 0
    /\ report.gsrt_median_ack = NoValue

\* C19: TUE fallback formula: when the enhanced TUE estimator fails and there
\* is at least one tool call, tue = 0.4*T + 0.25*P + 0.2*C + 0.15*L with
\* T = correct_calls/total_calls, P = valid_param_calls/total_calls,
\* C = 1 - min(1, total_cost/cost_cap) and L = 1.0 (no call has timing data);
\* tue lies in [0, 1], and tue_tool_correctness and tue_param_accuracy are T and P.
C19_TueFallbackFormula ==
    (pc = "metrics_done" /\ config.tue = "fail" /\ report.num_tool_calls > 0) =>
        LET calls == AllToolCalls(results.simulations)
            n == Len(calls)
            T == Div(Cardinality({i \in 1..n : calls[i].correct}), n)
            P == Div(Cardinality({i \in 1..n : calls[i].params_valid}), n)
            total_cost == FSum([i \in 1..n |-> calls[i].cost])
            C == FSub(One, FMin(One, FQuot(total_cost, CostCap(calls))))
            weighted == FAdd(FAdd(FMul(<<2, 5>>, T), FMul(<<1, 4>>, P)),
                             FAdd(FMul(<<1, 5>>, C), <<3, 20>>))
        IN /\ report.tue = weighted
           /\ ~FLess(report.tue, Zero) /\ ~FLess(One, report.tue)
           /\ report.tue_tool_correctness = T
           /\ report.tue_param_accuracy = P

\* the fallback has blended runs with a failed call, a call with a parameter
\* error and calls that carry a cost
C19_Witness ==
    /\ pc = "metrics_done" /\ config.tue = "fail"
    /\ \E i \in 1..Len(AllToolCalls(results.simulations)) :
          FLess(Zero, AllToolCalls(results.simulations)[i].cost)
    /\ FLess(report.tue_tool_correctness, report.tue_param_accuracy)
    /\ FLess(report.tue_param_accuracy, One)
    /\ FLess(Zero, report.tue) /\ FLess(report.tue, One)

----------------------------------------------------------------------------
(* tcrr.compute_tcrr: the analysis per task and over all calls *)

\* tau2.metrics.config: the configured window size and batch threshold
get_tcrr_window_size == DefaultWindowSize
get_tcrr_batch_threshold == DefaultBatchThreshold

RECURSIVE TaskOrder(_, _)
\* the keys of sims_by_task in insertion order (tcrr.py lines 254-259)
TaskOrder(simulations, seen) ==
    IF simulations = <<>> THEN <<>>
    ELSE IF simulations[1].task_id \in seen
         THEN TaskOrder(Tail(simulations), seen)
         ELSE <<simulations[1].task_id>>
              \o TaskOrder(Tail(simulations), seen \cup {simulations[1].task_id})

RECURSIVE CallsOfRuns(_)
\* tcrr.py lines 264-266: the calls of the runs, one run after the other
CallsOfRuns(task_sims) ==
    IF task_sims = <<>> THEN <<>>
    ELSE extract_tool_calls_with_turns(task_sims[1].messages)
         \o CallsOfRuns(Tail(task_sims))

\* task_tool_calls of one task (tcrr.py lines 262-266)
TaskToolCalls(simulations, task_id) ==
    CallsOfRuns(SelectSeq(simulations, LAMBDA sim : sim.task_id = task_id))

\* the calls of the first task only
FirstTaskCalls(simulations, order) ==
    IF order = <<>> THEN <<>> ELSE TaskToolCalls(simulations, order[1])

RECURSIVE ConcatTaskCalls(_, _)
\* all_tool_calls (tcrr.py line 267): the calls task by task
ConcatTaskCalls(simulations, order) ==
    IF order = <<>> THEN <<>>
    ELSE TaskToolCalls(simulations, order[1])
         \o ConcatTaskCalls(simulations, Tail(order))

\* tcrr.py lines 235-276
compute_tcrr(simulations) ==
    LET window_size == get_tcrr_window_size
        batch_threshold == get_tcrr_batch_threshold
        order == TaskOrder(simulations, {})
    IN [aggregated |->
            compute_tcrr_windowed(ConcatTaskCalls(simulations, order),
                                  window_size, batch_threshold),
        results_by_task |->
            [t \in {order[i] : i \in 1..Len(order)} |->
                compute_tcrr_windowed(TaskToolCalls(simulations, t),
                                      window_size, batch_threshold)]]

\* enough runs for the runs of two tasks to interleave
MaxTaskRuns == MaxRuns + 1

\* a finished run of a task, with its transcript, joins the results
AddTaskRun ==
    /\ pc = "runs"
    /\ Len(results.simulations) < MaxTaskRuns
    /\ \E task_id \in Tasks : \E msgs \in Transcripts :
          results' = [results EXCEPT !.simulations =
                         Append(@, [task_id |-> task_id, reward |-> One,
                                    agent_cost |-> Zero, messages |-> msgs])]
    /\ UNCHANGED <<env, pc, args, args2, canon, messages, tool_calls, config, tcrr,
                   trials, passk, report>>

\* compute_tcrr on the simulations of a Results
ComputeTcrr ==
    /\ pc = "runs"
    /\ tcrr' = compute_tcrr(results.simulations)
    /\ pc' = "by_task_done"
    /\ UNCHANGED <<env, args, args2, canon, messages, tool_calls, config, trials,
                   passk, results, report>>

SpecComputeTcrr == InitMetrics /\ [][AddTaskRun \/ ComputeTcrr]_vars

RECURSIVE CallsOfTasks(_, _)
\* the calls of the runs whose task is in task_ids, in simulation order
CallsOfTasks(simulations, task_ids) ==
    IF simulations = <<>> THEN <<>>
    ELSE (IF simulations[1].task_id \in task_ids
          THEN extract_tool_calls_with_turns(simulations[1].messages)
          ELSE <<>>)
         \o CallsOfTasks(Tail(simulations), task_ids)

RECURSIVE SumTotalCalls(_, _)
SumTotalCalls(by_task, task_ids) ==
    IF task_ids = {} THEN 0
    ELSE LET t == CHOOSE x \in task_ids : TRUE
         IN by_task[t].total_calls + SumTotalCalls(by_task, task_ids \ {t})

\* C18: compute_tcrr produces both levels: results_by_task has exactly one
\* entry per distinct task identifier among the simulations, each the result
\* of compute_tcrr_windowed on the calls of that task's runs only; the
\* aggregated result is compute_tcrr_windowed on all calls; and the aggregated
\* total_calls is the sum of the per-task total_calls.
C18_BothLevels ==
    pc = "by_task_done" =>
        LET task_ids == TasksWithRuns
        IN /\ DOMAIN tcrr.results_by_task = task_ids
           /\ \A t \in task_ids :
                 tcrr.results_by_task[t]
                    = compute_tcrr_windowed(CallsOfTasks(results.simulations, {t}),
                                            DefaultWindowSize, DefaultBatchThreshold)
           /\ tcrr.aggregated
                 = compute_tcrr_windowed(CallsOfTasks(results.simulations, task_ids),
                                         DefaultWindowSize, DefaultBatchThreshold)
           /\ tcrr.aggregated.total_calls
                 = SumTotalCalls(tcrr.results_by_task, task_ids)

\* two tasks have runs with tool calls, the runs of the tasks interleaved
C18_Witness ==
    /\ pc = "by_task_done"
    /\ Len(results.simulations) = 3
    /\ results.simulations[1].task_id = results.simulations[3].task_id
    /\ results.simulations[1].task_id # results.simulations[2].task_id
    /\ \A t \in TasksWithRuns : tcrr.results_by_task[t].total_calls > 0
    /\ tcrr.aggregated.redundant_calls > 0

\* the analysis of the calls of run i alone
RunAlone(i) ==
    compute_tcrr_windowed(
        extract_tool_calls_with_turns(results.simulations[i].messages),
        DefaultWindowSize, DefaultBatchThreshold)

RECURSIVE SumOfRuns(_, _)
\* the sum over the runs 1..n of count[i]
SumOfRuns(count, n) == IF n = 0 THEN 0 ELSE count[n] + SumOfRuns(count, n - 1)

\* C26: redundancy is only detected between calls of the same simulation run:
\* calls of two different runs never make each other window- or
\* batch-redundant, so the aggregated window_redundant_calls and
\* batch_redundant_calls of compute_tcrr are the sums of those counts computed
\* on each run alone.
C26_RunsAreIndependent ==
    pc = "by_task_done" =>
        LET n == Len(results.simulations)
        IN /\ tcrr.aggregated.window_redundant_calls
                 = SumOfRuns([i \in 1..n |-> RunAlone(i).window_redundant_calls], n)
           /\ tcrr.aggregated.batch_redundant_calls
                 = SumOfRuns([i \in 1..n |-> RunAlone(i).batch_redundant_calls], n)

\* C16: the aggregator feeds the RedundancyAnalyzer: for a Results with at
\* least one tool call, the tcrr, tcrr_total_calls and tcrr_redundant_calls
\* that compute_metrics reports are the redundancy_ratio, total_calls and
\* redundant_calls of the window-and-batch analysis (window size 3) of the same
\* simulations, and tcrr_by_task has an entry for every task that has runs.
C16_ReportIsWindowedAnalysis ==
    (pc = "metrics_done" /\ report.num_tool_calls > 0) =>
        LET analysis == compute_tcrr(results.simulations)
        IN /\ report.tcrr = analysis.aggregated.redundancy_ratio
           /\ report.tcrr_total_calls = analysis.aggregated.total_calls
           /\ report.tcrr_redundant_calls = analysis.aggregated.redundant_calls
           /\ \A i \in 1..Len(results.simulations) :
                  results.simulations[i].task_id \in DOMAIN report.tcrr_by_task

----------------------------------------------------------------------------
(* Outcome correlation in both extractors *)

\* agent_metrics.extract_tool_calls_from_messages on the transcript
ExtractFromMessages ==
    /\ pc = "transcript"
    /\ tool_calls' = extract_tool_calls_from_messages(messages)
    /\ pc' = "extracted_simple"
    /\ UNCHANGED <<env, args, args2, canon, messages, config, tcrr, trials, passk,
                   results, report>>

NextOutcome == NextExtract \/ ExtractFromMessages

SpecOutcome == InitExtract /\ [][NextOutcome]_vars

\* the positions of the tool-result messages with identifier id
ResultsOf(id) ==
    {m \in 1..Len(messages) : messages[m].role = "tool" /\ messages[m].id = id}

\* C17: outcome correlation: in a transcript with unique identifiers, the
\* correct flag of every extracted call is the success flag (not error) of the
\* tool-result message with the call's identifier, whether that message comes
\* before or after the call, and is true when there is no such message; a call
\* without a result also has params_valid = TRUE. Both extractors.
C17_OutcomeCorrelation ==
    pc \in {"extracted", "extracted_simple"} =>
        LET ids == AttachedCallIds(messages)
        IN /\ Len(tool_calls) = Len(ids)
           /\ \A i \in 1..Len(ids) :
                 /\ ResultsOf(ids[i]) = {} =>
                       tool_calls[i].correct /\ tool_calls[i].params_valid
                 /\ \A m \in ResultsOf(ids[i]) :
                       ResultsOf(ids[i]) = {m} =>
                           tool_calls[i].correct = ~messages[m].error

\* a failed result that sits before its call has been correlated with it, and
\* a second call of the same transcript has no result
C17_Witness ==
    /\ pc = "extracted_simple"
    /\ Len(tool_calls) = 2
    /\ \E m \in ResultsOf(AttachedCallIds(messages)[1]) :
          /\ m < MessageOfCall(AttachedCallIds(messages)[1])
          /\ messages[m].error
    /\ ~tool_calls[1].correct
    /\ ResultsOf(AttachedCallIds(messages)[2]) = {}
    /\ tool_calls[2].correct

----------------------------------------------------------------------------
(* The canonicalizers on any argument value *)

\* how a call ends: with an exception, or with the value it returns
Raises(exception) == [raised |-> exception, value |-> None]
Returns(value) == [raised |-> "", value |-> value]

\* tcrr.normalized_params(params): without a guard for other types, line 51
\* reads params.items(), which only a dict has
CallNormalizedParams(params) ==
    IF Tag(params) = "dict"
    THEN Returns(normalized_params(params))
    ELSE Raises("AttributeError")

\* agent_metrics.normalized_params(params): lines 34-35 turn any other type
\* into its str
CallNormalizedParamsSimple(params) ==
    Returns(agent_metrics_normalized_params(params))

\* the arguments of a tool call: a mapping, null, or any other value
InitCanonAny ==
    /\ pc = "canon_any_input"
    /\ args \in ArgMappings \cup ArgValues \cup {None}
    /\ args2 = args
    /\ canon = None
    /\ IdleExtract /\ IdleTcrr /\ IdlePassK /\ IdleResults
    /\ IdleEnv

CanonicalizeAny ==
    /\ pc = "canon_any_input"
    /\ canon' = CallNormalizedParams(args)
    /\ pc' = "canon_any_done"
    /\ UNCHANGED <<env, args, args2, messages, tool_calls, config, tcrr, trials, passk,
                   results, report>>

CanonicalizeAnySimple ==
    /\ pc = "canon_any_input"
    /\ canon' = CallNormalizedParamsSimple(args)
    /\ pc' = "canon_any_done_simple"
    /\ UNCHANGED <<env, args, args2, messages, tool_calls, config, tcrr, trials, passk,
                   results, report>>

SpecCanonAny == InitCanonAny /\ [][CanonicalizeAny \/ CanonicalizeAnySimple]_vars

\* C20: the canonicalizer never raises: for every argument value (a mapping, a
\* null or other value that is no mapping, a mapping holding lists of mixed or
\* non-orderable elements) normalized_params returns a hashable value.
C20_NeverRaises ==
    pc \in {"canon_any_done", "canon_any_done_simple"} =>
        /\ canon.raised = ""
        /\ Hashable(canon.value)

----------------------------------------------------------------------------
(* Edge cases of the window and the batch rule *)

CallsInTurn(t) == {i \in 1..Len(tool_calls) : TurnOf(i) = t}

\* every identity of turn t occurs once in it
SingleOccurrences(t) ==
    \A i, j \in CallsInTurn(t) : SameCall(i, j) => i = j

\* C21: window edge cases: no call stamped with assistant turn 0 or 1 is ever
\* counted as window-redundant, for any window_size; a call stamped with turn
\* 0 never makes a call of a later turn window-redundant (the window's lower
\* bound is turn 1); a single occurrence of an identity within a turn is never
\* batch-redundant when batch_threshold >= 1.
C21_WindowEdgeCases ==
    pc = "tcrr_done" =>
        /\ \A t \in DOMAIN tcrr.redundant_by_turn \cap {0, 1} :
              tcrr.redundant_by_turn[t]
                 = Cardinality(BatchRedundantCalls \cap CallsInTurn(t))
        /\ tcrr.window_redundant_calls
              = compute_tcrr_windowed(
                    SelectSeq(tool_calls, LAMBDA c : c.assistant_turn_idx # 0),
                    config.window_size, config.batch_threshold).window_redundant_calls
        /\ config.batch_threshold >= 1 =>
              \A t \in DOMAIN tcrr.redundant_by_turn :
                  SingleOccurrences(t) =>
                      tcrr.redundant_by_turn[t]
                         = Cardinality(WindowRedundantCalls \cap CallsInTurn(t))

\* the same call in turns 0, 1 and 2: only the call of turn 2 is redundant,
\* and only because of the call of turn 1
C21_Witness ==
    /\ pc = "tcrr_done"
    /\ Len(tool_calls) = 3
    /\ SameCall(1, 2) /\ SameCall(2, 3)
    /\ TurnOf(1) = 0 /\ TurnOf(2) = 1 /\ TurnOf(3) = 2
    /\ config.window_size = DefaultWindowSize
    /\ config.batch_threshold >= 1
    /\ tcrr.redundant_by_turn = (0 :> 0) @@ (1 :> 0) @@ (2 :> 1)
    /\ tcrr.batch_redundant_calls = 0

----------------------------------------------------------------------------
(* Transcripts with multi-tool bundle messages *)

\* tau2.data_model.message.MultiToolMessage: a bundle of tool-result messages
\* under tool_messages (read at user_simulator.py lines 130-131); it is no
\* ToolMessage and has no tool_calls
MultiToolMessage(tool_messages, turn_idx) ==
    [role |-> "multi_tool", tool_calls |-> <<>>, turn_idx |-> turn_idx,
     id |-> "", error |-> FALSE, content |-> <<>>,
     tool_messages |-> tool_messages]

\* the environment answers the calls of the last message in one bundle
AppendMultiToolMessage ==
    /\ pc = "transcript"
    /\ Len(messages) < MaxMsgs
    /\ messages # <<>>
    /\ messages[Len(messages)].tool_calls # <<>>
    /\ LET calls == messages[Len(messages)].tool_calls
       IN \E outcomes \in [1..Len(calls) -> ToolOutcomes] :
             messages' = Append(messages,
                 MultiToolMessage(
                     [i \in 1..Len(calls) |->
                         ToolMessage(calls[i].id, outcomes[i], Len(messages))],
                     Len(messages)))
    /\ UNCHANGED <<env, pc, args, args2, canon, tool_calls, config, tcrr, trials,
                   passk, results, report>>

SpecBundle == InitExtract /\ [][NextOutcome \/ AppendMultiToolMessage]_vars

\* the results with identifier id that sit inside a bundle: (message, position)
BundledResultsOf(id) ==
    {mp \in (1..Len(messages)) \X (1..MaxCallsPerMsg) :
        /\ messages[mp[1]].role = "multi_tool"
        /\ mp[2] <= Len(messages[mp[1]].tool_messages)
        /\ messages[mp[1]].tool_messages[mp[2]].id = id}

HasParamErrorKeyword(content) ==
    \E keyword \in ParamErrorKeywords : Contains(Lower(content), keyword)

\* C22: a tool call whose result is delivered inside a multi-tool bundle
\* message is still correlated with that result by identifier: correct is
\* false when the result is an error, and params_valid is false when the error
\* content holds a parameter-error keyword.
C22_BundledResults ==
    pc \in {"extracted", "extracted_simple"} =>
        LET ids == AttachedCallIds(messages)
        IN \A i \in 1..Len(ids) : \A mp \in BundledResultsOf(ids[i]) :
              LET result == messages[mp[1]].tool_messages[mp[2]]
              IN ResultsOf(ids[i]) = {} =>
                    /\ result.error => ~tool_calls[i].correct
                    /\ (result.error /\ HasParamErrorKeyword(result.content))
                          => ~tool_calls[i].params_valid

\* what the two extractors both record of a call
CommonFields(calls) ==
    [i \in 1..Len(calls) |->
        [name |-> calls[i].name, params |-> calls[i].params,
         correct |-> calls[i].correct, params_valid |-> calls[i].params_valid]]

\* C29: the two extractors agree: for every message sequence,
\* extract_tool_calls_from_messages and extract_tool_calls_with_turns return
\* the same number of records, in the same order, with the same name,
\* arguments, correct and params_valid values.
C29_ExtractorsAgree ==
    /\ pc = "extracted" =>
          CommonFields(tool_calls)
             = CommonFields(extract_tool_calls_from_messages(messages))
    /\ pc = "extracted_simple" =>
          CommonFields(tool_calls)
             = CommonFields(extract_tool_calls_with_turns(messages))

\* a call of a user message and a call of an assistant message, one of them
\* answered with a parameter error, read by the simple extractor
C29_Witness ==
    /\ pc = "extracted_simple"
    /\ Len(tool_calls) = 2
    /\ \E m \in 1..Len(messages) :
          messages[m].role = "user" /\ messages[m].tool_calls # <<>>
    /\ \E m \in 1..Len(messages) :
          messages[m].role = "assistant" /\ messages[m].tool_calls # <<>>
    /\ \E i \in 1..2 : ~tool_calls[i].correct /\ ~tool_calls[i].params_valid
    /\ \E i \in 1..2 : tool_calls[i].correct

\* transcripts and their extracted calls, and Results and their reports
SpecCallFlags == (InitExtract \/ InitMetrics) /\ [][NextOutcome \/ NextMetrics]_vars

\* C30: for every extracted call, params_valid = false implies correct = false
\* (parameter invalidity is only ever derived from an error result), so in
\* every report the aggregator computes from the extracted calls,
\* valid_param_calls >= correct_calls and param_accuracy >= tool_correctness.
C30_InvalidParamsImplyIncorrect ==
    /\ pc \in {"extracted", "extracted_simple"} =>
          \A i \in 1..Len(tool_calls) :
              ~tool_calls[i].params_valid => ~tool_calls[i].correct
    /\ (pc = "metrics_done" /\ (config.tue = "fail" \/ report.num_tool_calls = 0)) =>
          /\ report.tue_valid_param_calls >= report.tue_correct_calls
          /\ ~FLess(report.tue_param_accuracy, report.tue_tool_correctness)

\* a report over a call without result, a call that failed for another reason
\* and a call that failed with a parameter error
C30_Witness ==
    /\ pc = "metrics_done" /\ config.tue = "fail"
    /\ report.num_tool_calls = 3
    /\ report.tue_valid_param_calls = 2
    /\ report.tue_correct_calls = 1
    /\ FLess(report.tue_tool_correctness, report.tue_param_accuracy)

----------------------------------------------------------------------------
(* agent_metrics.get_tasks_pass_hat_k and prepare_dfs *)

\* the depth of the call stack at which the interpreter raises RecursionError
\* (1000 by default)
RecursionLimit == 4

\* a call in progress: who called, and how many frames are on the stack
Frames(caller, n) == [caller |-> caller, frames |-> n, raised |-> "", value |-> None]

\* the call has ended with an exception
Unwound(caller, n, exception) ==
    [caller |-> caller, frames |-> n, raised |-> exception, value |-> None]

\* get_tasks_pass_hat_k(results) is called
CallGetTasksPassHatK ==
    /\ pc = "results"
    /\ report' = Frames("", 1)
    /\ pc' = "get_tasks_pass_hat_k"
    /\ UNCHANGED <<env, args, args2, canon, messages, tool_calls, config, tcrr, trials,
                   passk, results>>

\* prepare_dfs(results), lines 776-778: get_metrics_df, then the call of
\* get_tasks_pass_hat_k
CallPrepareDfs ==
    /\ pc = "results"
    /\ LET r == get_metrics_df(results)
       IN IF r.raised # ""
          THEN report' = Unwound("prepare_dfs", 1, r.raised)
               /\ pc' = "tasks_pass_hat_k_done"
          ELSE report' = Frames("prepare_dfs", 2)
               /\ pc' = "get_tasks_pass_hat_k"
    /\ UNCHANGED <<env, args, args2, canon, messages, tool_calls, config, tcrr, trials,
                   passk, results>>

\* the body of get_tasks_pass_hat_k, lines 769-770: get_metrics_df, then the
\* function calls itself with the same argument; lines 771-773 come after that
\* call
EnterGetTasksPassHatK ==
    /\ pc = "get_tasks_pass_hat_k"
    /\ LET r == get_metrics_df(results)
       IN IF r.raised # ""
          THEN report' = Unwound(report.caller, report.frames, r.raised)
               /\ pc' = "tasks_pass_hat_k_done"
          ELSE IF report.frames >= RecursionLimit
          THEN report' = Unwound(report.caller, report.frames, "RecursionError")
               /\ pc' = "tasks_pass_hat_k_done"
          ELSE report' = Frames(report.caller, report.frames + 1)
               /\ pc' = pc
    /\ UNCHANGED <<env, args, args2, canon, messages, tool_calls, config, tcrr, trials,
                   passk, results>>

NextTasksPassHatK ==
    AddSimulation \/ CallGetTasksPassHatK \/ CallPrepareDfs \/ EnterGetTasksPassHatK

SpecTasksPassHatK == InitResults /\ [][NextTasksPassHatK]_vars

\* C23: get_tasks_pass_hat_k terminates for every well-formed Results and
\* returns the per-task pass^k table for each k from 1 to the maximum number of
\* trials; prepare_dfs, which calls it, also terminates and returns its two
\* tables: on a Results with runs, a call that has ended has returned a value
\* and raised nothing.
C23_ReturnsTable ==
    (pc = "tasks_pass_hat_k_done" /\ results.simulations # <<>>) =>
        report.raised = "" /\ report.value # None

----------------------------------------------------------------------------
(* BankingEnvironment.sync_tools *)

\* a phone_number that is None or empty
NoPhone == ""
Phones == {"555-0100"}

\* the customers, accounts and cards a BankingDB can hold
Customers ==
    [customer_id : {"cust1"}, account_ids : {<<>>, <<"acc1">>},
     card_ids : {<<>>, <<"card1">>}]
Accounts == [account_id : {"acc1"}, status : {"Active", "Frozen"},
             current_balance : {100}]
Cards == [card_id : {"card1"}, status : {"Active", "Blocked"}]

\* a table with the one row `row` under `key`, and the table without rows
Row(key, row) == [k \in {key} |-> row]
NoRows == [k \in {} |-> None]

BankingDBs ==
    [customers : {NoRows} \cup {Row(p, c) : p \in Phones, c \in Customers},
     accounts : {NoRows} \cup {Row(a.account_id, a) : a \in Accounts},
     cards : {NoRows} \cup {Row(c.card_id, c) : c \in Cards}]

\* the user database as an earlier sync of another customer left it
StaleUserDB ==
    [phone_number |-> NoPhone, customer_id |-> "cust0",
     primary_account_active |-> FALSE, primary_account_id |-> "acc0",
     account_balance |-> 0,
     primary_card_active |-> FALSE, primary_card_id |-> "card0"]

\* BankingTools.get_customer_by_phone, get_account and _get_card: the row, or
\* an exception when there is none
Lookup(table, key) ==
    IF key \in DOMAIN table THEN Returns(table[key]) ELSE Raises("ValueError")

\* environment.py lines 64-68, after the lookup of the card
SyncCard(db, customer, user_db) ==
    IF customer.card_ids # <<>>
    THEN LET card == Lookup(db.cards, customer.card_ids[1])
         IN IF card.raised # ""
            THEN [raised |-> card.raised, user_db |-> user_db]
            ELSE [raised |-> "",
                  user_db |-> [user_db EXCEPT
                      !.primary_card_active = (card.value.status = "Active"),
                      !.primary_card_id = card.value.card_id]]
    ELSE [raised |-> "", user_db |-> user_db]

\* environment.py lines 57-68
SyncAccount(db, customer, user_db) ==
    IF customer.account_ids # <<>>
    THEN LET account == Lookup(db.accounts, customer.account_ids[1])
         IN IF account.raised # ""
            THEN [raised |-> account.raised, user_db |-> user_db]
            ELSE SyncCard(db, customer,
                     [user_db EXCEPT
                         !.primary_account_active = (account.value.status = "Active"),
                         !.primary_account_id = account.value.account_id,
                         !.account_balance = account.value.current_balance])
    ELSE SyncCard(db, customer, user_db)

\* environment.py lines 47-72: the user database after the call, and the
\* exception the handler at line 70 swallowed ("" when there was none)
sync_tools(db, user_db) ==
    LET phone == user_db.phone_number
    IN IF phone = NoPhone
       THEN [raised |-> "", caught |-> "", user_db |-> user_db]
       ELSE LET customer == Lookup(db.customers, phone)
            IN IF customer.raised # ""
               THEN [raised |-> "", caught |-> customer.raised, user_db |-> user_db]
               ELSE LET r == SyncAccount(db, customer.value,
                                [user_db EXCEPT
                                    !.customer_id = customer.value.customer_id])
                    IN [raised |-> "", caught |-> r.raised, user_db |-> r.user_db]

InitBanking ==
    /\ pc = "banking"
    /\ env \in [db : BankingDBs, user_db : {StaleUserDB}, before : {StaleUserDB},
                raised : {""}, caught : {""}, synced : {FALSE}]
    /\ IdleCanon /\ IdleExtract /\ IdleTcrr /\ IdlePassK /\ IdleResults

\* BankingUserTools.update_user(phone_number=...), environment.py lines 27-31
UpdateUser ==
    /\ pc = "banking"
    /\ \E phone \in Phones \cup {NoPhone} :
          /\ phone # env.user_db.phone_number
          /\ env' = [env EXCEPT !.user_db.phone_number = phone, !.synced = FALSE]
    /\ UNCHANGED <<pc, args, args2, canon, messages, tool_calls, config, tcrr,
                   trials, passk, results, report>>

SyncTools ==
    /\ pc = "banking"
    /\ ~env.synced
    /\ LET r == sync_tools(env.db, env.user_db)
       IN env' = [env EXCEPT !.before = env.user_db, !.user_db = r.user_db,
                             !.raised = r.raised, !.caught = r.caught,
                             !.synced = TRUE]
    /\ UNCHANGED <<pc, args, args2, canon, messages, tool_calls, config, tcrr,
                   trials, passk, results, report>>

SpecBanking == InitBanking /\ [][UpdateUser \/ SyncTools]_vars

\* C24: BankingEnvironment.sync_tools never raises, leaves the user database
\* unchanged when the user has no phone number, and when any lookup during the
\* sync fails (customer, account or card) the fields customer_id,
\* primary_account_active, primary_account_id, account_balance,
\* primary_card_active and primary_card_id keep the values they had before.
C24_SyncKeepsValuesOnFailure ==
    (pc = "banking" /\ env.synced) =>
        /\ env.raised = ""
        /\ env.before.phone_number = NoPhone => env.user_db = env.before
        /\ env.caught # "" => env.user_db = env.before

----------------------------------------------------------------------------
(* RetailUserSimulator._generate_next_message *)

MaxExchanges == 3

\* a message with text content
TextMessage(role, content, calls) ==
    [role |-> role, tool_calls |-> calls, turn_idx |-> 0,
     id |-> "", error |-> FALSE, content |-> content]

Text_hello == <<104, 105>>
\* "(no content)"
NoContentText == <<40, 110, 111, 32, 99, 111, 110, 116, 101, 110, 116, 41>>
\* "I'm having trouble responding. Could you please repeat that?", shortened
FallbackText == <<73, 39, 109, 32, 104, 97, 118, 105, 110, 103, 32, 116, 114,
                  111, 117, 98, 108, 101>>

\* what the agent side hands to the user simulator
IncomingMessages ==
    {TextMessage("assistant", Text_hello, <<>>),
     ToolMessage("c1", <<FALSE, <<111, 107>>>>, 0),
     MultiToolMessage(<<ToolMessage("c1", <<FALSE, <<111, 107>>>>, 0),
                        ToolMessage("c2", <<FALSE, <<111, 107>>>>, 0)>>, 0)}

\* tau2.utils.llm_utils.generate: the reply of the model, or an exception
GenerateOutcomes ==
    {Returns(TextMessage("assistant", Text_hello, <<>>)),
     Returns(TextMessage("assistant", <<>>, <<>>)),
     Returns(TextMessage("assistant", <<>>, <<ToolCallOf("c3")>>)),
     Raises("Exception")}

\* user_simulator.py lines 130-133
WithIncoming(state_messages, message) ==
    IF message.role = "multi_tool"
    THEN state_messages \o message.tool_messages
    ELSE Append(state_messages, message)

\* user_simulator.py lines 180-191: state.messages already holds what lines
\* 130-133 appended to it
Fallback(appended_messages, message) ==
    LET user_message == TextMessage("user", FallbackText, <<>>)
    IN [user_message |-> user_message,
        messages |-> appended_messages \o <<message, user_message>>]

\* user_simulator.py lines 145-151 and 154-174: the user message built from
\* the reply of the model
UserMessageOf(assistant_message) ==
    LET content == IF assistant_message.tool_calls = <<>>
                      /\ assistant_message.content = <<>>
                   THEN NoContentText
                   ELSE assistant_message.content
    IN TextMessage("user", content,
           [i \in 1..Len(assistant_message.tool_calls) |->
               [id |-> assistant_message.tool_calls[i].id,
                name |-> assistant_message.tool_calls[i].name,
                arguments |-> assistant_message.tool_calls[i].arguments,
                requestor |-> "user"]])

\* user_simulator.py lines 115-191
generate_next_message(message, state_messages, generated) ==
    LET appended_messages == WithIncoming(state_messages, message)
    IN IF generated.raised # ""
       THEN Fallback(appended_messages, message)
       ELSE LET user_message == UserMessageOf(generated.value)
            IN [user_message |-> user_message,
                messages |-> Append(appended_messages, user_message)]

\* get_init_state(None), lines 82-92: an empty history
InitUserSimulator ==
    /\ pc = "user_simulator"
    /\ env = [messages |-> <<>>, before |-> <<>>, message |-> None,
              user_message |-> None, generated |-> None, exchanges |-> 0]
    /\ IdleCanon /\ IdleExtract /\ IdleTcrr /\ IdlePassK /\ IdleResults

\* one call, on the state the call before it returned
GenerateNextMessage ==
    /\ pc = "user_simulator"
    /\ env.exchanges < MaxExchanges
    /\ \E message \in IncomingMessages : \E generated \in GenerateOutcomes :
          LET r == generate_next_message(message, env.messages, generated)
          IN env' = [messages |-> r.messages, before |-> env.messages,
                     message |-> message, user_message |-> r.user_message,
                     generated |-> generated, exchanges |-> env.exchanges + 1]
    /\ UNCHANGED <<pc, args, args2, canon, messages, tool_calls, config, tcrr,
                   trials, passk, results, report>>

SpecUserSimulator == InitUserSimulator /\ [][GenerateNextMessage]_vars

\* the incoming message as it belongs in the history
IncomingPart(message) ==
    IF message.role = "multi_tool" THEN message.tool_messages ELSE <<message>>

\* C25: the returned state's message history is always the history before the
\* call, followed by the incoming message (or, for a multi-tool bundle, its
\* individual tool messages), followed by the returned user message, each
\* incoming message appearing exactly once, both when generation succeeds and
\* when it fails and the canned fallback reply is returned.
C25_HistoryAfterCall ==
    (pc = "user_simulator" /\ env.exchanges > 0) =>
        env.messages
           = env.before \o IncomingPart(env.message) \o <<env.user_message>>

----------------------------------------------------------------------------
(* The canonical forms of two argument mappings *)

\* the arguments of two tool calls: one key, any value
PairMappings == {PDict(<<<<K_a, v>>>>) : v \in ArgValues}

InitCanonPairs ==
    /\ pc = "canon_pair_input"
    /\ args \in PairMappings
    /\ args2 \in PairMappings
    /\ canon = None
    /\ IdleExtract /\ IdleTcrr /\ IdlePassK /\ IdleResults
    /\ IdleEnv

\* both canonicalizers applied to both mappings
CanonicalizeBoth ==
    /\ pc = "canon_pair_input"
    /\ canon' = [tcrr |-> <<normalized_params(args), normalized_params(args2)>>,
                 agent_metrics |-> <<agent_metrics_normalized_params(args),
                                     agent_metrics_normalized_params(args2)>>]
    /\ pc' = "canon_pair_done"
    /\ UNCHANGED <<env, args, args2, messages, tool_calls, config, tcrr, trials,
                   passk, results, report>>

SpecCanonPairs == InitCanonPairs /\ [][CanonicalizeBoth]_vars

RECURSIVE SameArguments(_, _)
\* x and y are the same logical value: equal after reordering the keys of
\* mappings and the elements of lists, at any depth
SameArguments(x, y) ==
    IF Tag(x) # Tag(y) THEN FALSE
    ELSE CASE Tag(x) = "dict" ->
                /\ Len(Val(x)) = Len(Val(y))
                /\ \A i \in 1..Len(Val(x)) : \E j \in 1..Len(Val(y)) :
                      /\ Val(x)[i][1] = Val(y)[j][1]
                      /\ SameArguments(Val(x)[i][2], Val(y)[j][2])
           [] Tag(x) = "list" ->
                /\ Len(Val(x)) = Len(Val(y))
                /\ \E f \in Permutations(1..Len(Val(x))) :
                      \A i \in 1..Len(Val(x)) :
                          SameArguments(Val(x)[i], Val(y)[f[i]])
           [] OTHER -> x = y

\* C27: canonical identity is injective up to reordering:
\* normalized_params(a) == normalized_params(b) only if a and b are the same
\* logical argument set; two mappings that differ in a value (a list holding
\* the number 1 versus a list holding the string "1") never receive the same
\* canonical form.
C27_CanonInjective ==
    pc = "canon_pair_done" =>
        (PyEq(canon.tcrr[1], canon.tcrr[2]) => SameArguments(args, args2))

\* C28: the two canonicalizers agree on call identity: for all argument
\* mappings a and b, agent_metrics.normalized_params(a) ==
\* agent_metrics.normalized_params(b) if and only if
\* tcrr.normalized_params(a) == tcrr.normalized_params(b).
C28_CanonicalizersAgree ==
    pc = "canon_pair_done" =>
        (PyEq(canon.agent_metrics[1], canon.agent_metrics[2])
            <=> PyEq(canon.tcrr[1], canon.tcrr[2]))

====
